---- MODULE Spec2Model ----
(***************************************************************************)
(* A model of the monitoring-and-alerting engine of the system monitor:    *)
(*   - monitor/activity.ts : the process / USB baseline (knownProcesses,   *)
(*     knownUSBDevices), initializeBaseline, detectChanges, getUSBDevices, *)
(*     checkSuspiciousActivity, getActivitySummary, and the process table  *)
(*     that si.processes() reads                                           *)
(*   - index.ts            : generateReport, checkAndReport,               *)
(*     sendNotifications                                                   *)
(*   - notify/whatsapp.ts  : sendReportToWhatsApp, splitMessage,           *)
(*     notifyViaWhatsApp                                                   *)
(*   - auth/whatsapp.ts    : initWhatsApp, sendWhatsAppMessage             *)
(*   - notify/email.ts     : sendEmail                                     *)
(*   - index.ts            : startMonitoring (timers, SIGINT)              *)
(*   - monitor/login.ts    : watchLogins, stopWatchingLogins               *)
(* Every async function is cut at its awaits: one action per resumption,   *)
(* so that concurrent callers interleave exactly where the event loop      *)
(* lets them.                                                              *)
(***************************************************************************)
EXTENDS Integers, Sequences, FiniteSets, TLC

VARIABLES
    knownProcesses,   \* activity.ts: let knownProcesses: Set<string>
    knownUSBDevices,  \* activity.ts: let knownUSBDevices: Set<string>
    pc,               \* per caller: where its call into activity.ts stands
    processes,        \* per caller: what `await si.processes()` gave it
    usb,              \* per caller: what `await getUSBDevices()` gave it
    usbCaught,        \* per caller: whether that getUSBDevices call ended in its catch
    changes,          \* per caller: the `changes` object of detectChanges
    config,           \* index.ts: const config = loadConfig()   (startMonitoring)
    cyclePc,          \* index.ts: where the running checkAndReport stands
    report,           \* index.ts: const report = await generateReport()
    alerts,           \* index.ts: const alerts: string[]   (checkAndReport)
    outbox,           \* the messages handed to sendNotifications in this cycle
    message,          \* notify/whatsapp.ts: the `report` given to sendReportToWhatsApp
    parts,            \* notify/whatsapp.ts: const parts = splitMessage(...)
    partIndex,        \* notify/whatsapp.ts: the loop variable i (0-based)
    allSent,          \* notify/whatsapp.ts: let allSent
    wire,             \* the texts handed to notifyViaWhatsApp, in order
    outcomes,         \* what notifyViaWhatsApp answered for each of them, in order
    sendPc,           \* where the running sendReportToWhatsApp stands
    sendResult,       \* what sendReportToWhatsApp returned
    savedConfig,      \* settings.ts: the channel part of the config file loadConfig() reads
    build,            \* which of the repository's two copies of auth/whatsapp.ts is built
    client,           \* auth/whatsapp.ts: let client (TRUE: not null)
    isReady,          \* auth/whatsapp.ts: let isReady
    notifyPc,         \* where the running notifyViaWhatsApp stands
    notifyResult,     \* what notifyViaWhatsApp returned
    attempt,          \* auth/whatsapp.ts: the loop variable i of sendWhatsAppMessage
    attempts,         \* how each client.sendMessage of this call ended, in order
    transporter,      \* notify/email.ts: let transporter (TRUE: not null)
    emailPc,          \* where the running sendEmail stands
    emailResult,      \* what sendEmail returned
    dispatchPc,       \* where the running sendNotifications stands
    called,           \* the channels sendNotifications has handed this message to
    thrown,           \* whether sendNotifications ended by throwing
    phase,            \* index.ts: where startMonitoring and the process stand
    inFlight,         \* per periodic job: its runs started and not yet ended
    loginWatcher,     \* login.ts: let loginWatcher (TRUE: an armed interval)
    lastSessionCount, \* login.ts: let lastSessionCount
    initialRead,      \* login.ts: whether watchLogins' first getCurrentSessions() is pending
    polls,            \* login.ts: the polls awaiting their getCurrentSessions()
    pollAlert,        \* the event the latest completed poll gave the callback ("none": none)
    lastPolled,       \* history: what the latest completed poll saw (done: there was
                      \* one; failed: its `who` failed; good: what the latest poll
                      \* whose `who` worked saw, hadGood: there was one)
    checkPc,          \* activity.ts: where the running checkSuspiciousActivity stands
    suspicious,       \* activity.ts: const suspicious: string[]
    evidence,         \* what each check of this checkSuspiciousActivity was given
    streak,           \* history: the latest consecutive checks that found a usage above
                      \* its threshold, and the threshold alerts they handed over
    table             \* the machine: the names of the processes running now

trackerVars ==
    <<knownProcesses, knownUSBDevices, pc, processes, usb, usbCaught, changes, table>>
evaluatorVars == <<checkPc, suspicious, evidence>>
cycleVars == <<config, cyclePc, report, alerts, outbox, evaluatorVars, streak>>

sendVars == <<message, parts, partIndex, allSent, wire, outcomes, sendPc, sendResult>>

chatVars == <<savedConfig, build, client, isReady, notifyPc, notifyResult, attempt, attempts>>
emailVars == <<transporter, emailPc, emailResult>>
dispatchVars == <<dispatchPc, called, thrown>>
deliveryVars == <<chatVars, emailVars, dispatchVars>>

schedulerVars ==
    <<phase, inFlight, loginWatcher, lastSessionCount, initialRead, polls, pollAlert, lastPolled>>

vars == <<trackerVars, cycleVars, sendVars, deliveryVars, schedulerVars>>

(***************************************************************************)
(* Bounds and input domains.                                               *)
(***************************************************************************)
MaxProcs == 2      \* longest process list si.processes() returns here
MaxUsb == 2        \* most lines lsusb prints here

\* Concurrent callers of the module (timer callbacks, the chat command
\* handler): each awaits its own call, several may be in flight.
Callers == {"t1", "t2"}

ProcNames == {"bash", "xmrig"}

ProcLists == UNION {[1..n -> ProcNames] : n \in 0..MaxProcs}

\* The process lists of the end-to-end scenario (a baseline of bash and
\* chrome, then xmrig started), and lists with names that touch the miner
\* patterns and the safe list in every way.
ScenarioLists ==
    { <<"bash", "chrome">>,
      <<"bash", "chrome", "xmrig">>,
      <<"bash", "XMRig", "chrome", "XMRig">>,
      <<"tracker-miner-fs", "SearchIndexer", "cpuminer">>,
      <<"minertracker", "xmr-tracker", "bash">> }

ScenarioNames == UNION {{l[i] : i \in 1..Len(l)} : l \in ScenarioLists}

\* Every process name of the model.
AllProcNames == ProcNames \cup ScenarioNames

\* Outcomes of `await si.processes()`: it rejects, it resolves to an object
\* without a list, or it resolves to an object with a list (names may repeat:
\* one entry per running process).
ProcessesResults ==
    {[tag |-> "throw", list |-> <<>>], [tag |-> "nolist", list |-> <<>>]}
        \cup {[tag |-> "ok", list |-> l] : l \in ProcLists}

\* lsusb output lines.  Two devices of the same model print the same ID.
UsbLinePool ==
    { [match |-> TRUE, id |-> "1d6b:0002", rest |-> <<"Linux", "Foundation", "root", "hub">>],
      [match |-> TRUE, id |-> "0781:5581", rest |-> <<"SanDisk", "Ultra">>] }

UsbLineLists == UNION {[1..n -> UsbLinePool] : n \in 0..MaxUsb}

\* Outcomes of the command inside getUSBDevices: it fails, or it prints lines.
UsbRawResults ==
    {[tag |-> "fail", lines |-> <<>>]} \cup {[tag |-> "ok", lines |-> l] : l \in UsbLineLists}

\* Outcomes of `await si.processes()` in the end-to-end scenario.
ScenarioResults ==
    {[tag |-> "throw", list |-> <<>>]} \cup {[tag |-> "ok", list |-> l] : l \in ScenarioLists}

NoResult == [tag |-> "none", list |-> <<>>]
NoChanges == [newProcesses |-> <<>>, newUSBDevices |-> <<>>]

(***************************************************************************)
(* Helpers: JavaScript Set and Array semantics.                            *)
(***************************************************************************)
ToSet(s) == {s[i] : i \in 1..Len(s)}

\* Iteration order of `new Set(array)`: first occurrences, in array order.
RECURSIVE SetOrder(_)
SetOrder(s) ==
    IF s = <<>> THEN <<>>
    ELSE LET front == SetOrder(SubSeq(s, 1, Len(s) - 1))
             last == s[Len(s)]
         IN IF last \in ToSet(front) THEN front ELSE Append(front, last)

\* array.filter(keep), as a sequence.
RECURSIVE Filter(_, _)
Filter(s, keep) ==
    IF s = <<>> THEN <<>>
    ELSE IF Head(s) \in keep THEN <<Head(s)>> \o Filter(Tail(s), keep)
         ELSE Filter(Tail(s), keep)

(***************************************************************************)
(* activity.ts: getUSBDevices (the lsusb branch).                          *)
(***************************************************************************)
ParseUsbLine(line) ==
    [ id     |-> IF line.match THEN line.id ELSE "unknown",
      name   |-> line.rest,
      vendor |-> IF line.match /\ line.rest # <<>> THEN line.rest[1] ELSE "unknown",
      type   |-> "usb" ]

\* try { ... return lines.map(...) } catch { return [] }
getUSBDevices(raw) ==
    IF raw.tag = "fail" THEN <<>>
    ELSE [i \in 1..Len(raw.lines) |-> ParseUsbLine(raw.lines[i])]

UsbIds(devices) == {devices[i].id : i \in 1..Len(devices)}

(***************************************************************************)
(* activity.ts: the pure parts of initializeBaseline and detectChanges.    *)
(***************************************************************************)
\* const procs = processes.list || [];
ProcsOf(result) == IF result.tag = "ok" THEN result.list ELSE <<>>

\* const currentProcesses = new Set(procs.map((p) => p.name));
CurrentProcesses(result) == ToSet(ProcsOf(result))

\* (mutant) the loop running over the array `procs`, not over the Set
NewProcessesOverArray(result, known) ==
    Filter(ProcsOf(result), AllProcNames \ known)

\* for (const proc of currentProcesses) if (!knownProcesses.has(proc)) push
NewProcessesOf(result, known) ==
    Filter(SetOrder(ProcsOf(result)), AllProcNames \ known)

\* (mutant) the snapshot added to the known set instead of replacing it
UnionKnownProcesses(known, current) == known \cup current

\* knownProcesses = currentProcesses;   (detectChanges)
ReplaceKnownProcesses(known, current) == current

\* for (const device of usb) if (!knownUSBDevices.has(device.id)) push(device)
NewUsbDevicesOf(devices, known) ==
    LET keep == {i \in 1..Len(devices) : devices[i].id \notin known}
        F[i \in 0..Len(devices)] ==
            IF i = 0 THEN <<>>
            ELSE IF i \in keep THEN Append(F[i - 1], devices[i]) ELSE F[i - 1]
    IN F[Len(devices)]

\* knownUSBDevices = currentUSB;   (detectChanges)
ReplaceKnownUsb(known, current) == current

\* (mutant) a baseline that is only filled when it is still empty
InitKnownProcessesOnce(known, current) == IF known = {} THEN current ELSE known

\* knownProcesses = new Set(procs.map((p) => p.name));   (initializeBaseline)
InitKnownProcesses(known, current) == current

\* knownUSBDevices = new Set(usb.map((d) => d.id));   (initializeBaseline)
InitKnownUsb(known, current) == current

(***************************************************************************)
(* Initial state: the module has just been loaded.                         *)
(***************************************************************************)
TrackerInit ==
    /\ knownProcesses = {}
    /\ knownUSBDevices = {}
    /\ pc = [c \in Callers |-> "idle"]
    /\ processes = [c \in Callers |-> NoResult]
    /\ usb = [c \in Callers |-> <<>>]
    /\ usbCaught = [c \in Callers |-> FALSE]
    /\ changes = [c \in Callers |-> NoChanges]
    /\ table = {"bash"}

(***************************************************************************)
(* initializeBaseline(), cut at its two awaits.                            *)
(***************************************************************************)
\* The call: runs to `await si.processes()`.
InitializeCall(c) ==
    /\ pc[c] = "idle"
    /\ pc' = [pc EXCEPT ![c] = "init_await_processes"]
    /\ processes' = [processes EXCEPT ![c] = NoResult]
    /\ usb' = [usb EXCEPT ![c] = <<>>]
    /\ usbCaught' = [usbCaught EXCEPT ![c] = FALSE]
    /\ changes' = [changes EXCEPT ![c] = NoChanges]
    /\ UNCHANGED <<knownProcesses, knownUSBDevices>>
    /\ UNCHANGED table

\* si.processes() settles.  A rejection lands in `catch {}`: the function
\* returns with neither set touched.  Otherwise knownProcesses is replaced and
\* the function runs to `await getUSBDevices()`.
InitializeProcessesFrom(c, results) ==
    /\ pc[c] = "init_await_processes"
    /\ \E result \in results :
        /\ processes' = [processes EXCEPT ![c] = result]
        /\ IF result.tag = "throw"
           THEN /\ pc' = [pc EXCEPT ![c] = "init_done"]
                /\ UNCHANGED knownProcesses
           ELSE /\ pc' = [pc EXCEPT ![c] = "init_await_usb"]
                /\ knownProcesses' = InitKnownProcesses(knownProcesses, CurrentProcesses(result))
    /\ UNCHANGED <<knownUSBDevices, usb, usbCaught, changes>>
    /\ UNCHANGED table

InitializeProcesses(c) == InitializeProcessesFrom(c, ProcessesResults)

\* getUSBDevices() resolves (it never rejects): knownUSBDevices is replaced.
\* (`processes` is not read again: the model drops it here.)
InitializeUsb(c) ==
    /\ pc[c] = "init_await_usb"
    /\ \E raw \in UsbRawResults :
        /\ usb' = [usb EXCEPT ![c] = getUSBDevices(raw)]
        /\ usbCaught' = [usbCaught EXCEPT ![c] = (raw.tag = "fail")]
        /\ knownUSBDevices' = InitKnownUsb(knownUSBDevices, UsbIds(getUSBDevices(raw)))
    /\ pc' = [pc EXCEPT ![c] = "init_done"]
    /\ processes' = [processes EXCEPT ![c] = NoResult]
    /\ UNCHANGED <<knownProcesses, changes>>
    /\ UNCHANGED table

(***************************************************************************)
(* detectChanges(), cut at its two awaits.                                 *)
(***************************************************************************)
\* The call: `changes` is created empty, runs to `await si.processes()`.
DetectCall(c) ==
    /\ pc[c] = "idle"
    /\ pc' = [pc EXCEPT ![c] = "detect_await_processes"]
    /\ processes' = [processes EXCEPT ![c] = NoResult]
    /\ usb' = [usb EXCEPT ![c] = <<>>]
    /\ usbCaught' = [usbCaught EXCEPT ![c] = FALSE]
    /\ changes' = [changes EXCEPT ![c] = NoChanges]
    /\ UNCHANGED <<knownProcesses, knownUSBDevices>>
    /\ UNCHANGED table

\* si.processes() settles.  First try block: on a rejection nothing happens;
\* otherwise the diff against knownProcesses and its replacement, in one
\* synchronous run.  Then the second try block starts getUSBDevices().
DetectProcessesFrom(c, results) ==
    /\ pc[c] = "detect_await_processes"
    /\ \E result \in results :
        /\ processes' = [processes EXCEPT ![c] = result]
        /\ IF result.tag = "throw"
           THEN UNCHANGED <<knownProcesses, changes>>
           ELSE /\ changes' = [changes EXCEPT
                       ![c].newProcesses = NewProcessesOf(result, knownProcesses)]
                /\ knownProcesses' =
                       ReplaceKnownProcesses(knownProcesses, CurrentProcesses(result))
    /\ pc' = [pc EXCEPT ![c] = "detect_await_usb"]
    /\ UNCHANGED <<knownUSBDevices, usb, usbCaught>>
    /\ UNCHANGED table

DetectProcesses(c) == DetectProcessesFrom(c, ProcessesResults)

\* getUSBDevices() resolves: the diff against knownUSBDevices and its
\* replacement, then `return changes`.  (`processes` was local to the first
\* try block: it is gone here.)
DetectUsb(c) ==
    /\ pc[c] = "detect_await_usb"
    /\ \E raw \in UsbRawResults :
        /\ usb' = [usb EXCEPT ![c] = getUSBDevices(raw)]
        /\ usbCaught' = [usbCaught EXCEPT ![c] = (raw.tag = "fail")]
        /\ changes' = [changes EXCEPT
               ![c].newUSBDevices = NewUsbDevicesOf(getUSBDevices(raw), knownUSBDevices)]
        /\ knownUSBDevices' = ReplaceKnownUsb(knownUSBDevices, UsbIds(getUSBDevices(raw)))
    /\ pc' = [pc EXCEPT ![c] = "detect_done"]
    /\ processes' = [processes EXCEPT ![c] = NoResult]
    /\ UNCHANGED knownProcesses
    /\ UNCHANGED table

\* The caller has taken the result; it may call again.
Return(c) ==
    /\ pc[c] \in {"init_done", "detect_done"}
    /\ pc' = [pc EXCEPT ![c] = "idle"]
    /\ processes' = [processes EXCEPT ![c] = NoResult]
    /\ usb' = [usb EXCEPT ![c] = <<>>]
    /\ usbCaught' = [usbCaught EXCEPT ![c] = FALSE]
    /\ changes' = [changes EXCEPT ![c] = NoChanges]
    /\ UNCHANGED <<knownProcesses, knownUSBDevices>>
    /\ UNCHANGED table

(***************************************************************************)
(* detectChanges() over a process table that is read while the call waits: *)
(* si.processes() lists the table at some moment between the call and the  *)
(* resumption, and concurrent calls resume in any order.  (The             *)
(* specifications that draw the outcome of si.processes() from a set do     *)
(* not read the table.)                                                    *)
(***************************************************************************)
\* The list si.processes() makes of a table.
ListOfTable(t) == Filter(<<"bash", "xmrig">>, t)

\* A process starts, and keeps running.
ProcessAppears ==
    /\ "xmrig" \notin table
    /\ table' = table \cup {"xmrig"}
    /\ UNCHANGED <<knownProcesses, knownUSBDevices, pc, processes, usb, usbCaught, changes>>

\* The si.processes() of a waiting detectChanges reads the table.
ReadProcessTable(c) ==
    /\ pc[c] = "detect_await_processes"
    /\ processes[c] = NoResult
    /\ processes' = [processes EXCEPT ![c] = [tag |-> "ok", list |-> ListOfTable(table)]]
    /\ UNCHANGED <<knownProcesses, knownUSBDevices, pc, usb, usbCaught, changes, table>>

\* That si.processes() resolves with what it read.
ProcessesResolve(c) ==
    /\ processes[c] # NoResult
    /\ DetectProcessesFrom(c, {processes[c]})

(***************************************************************************)
(* activity.ts: checkSuspiciousActivity (the non-Windows branches).        *)
(* Process names are read as character sequences, so that                  *)
(* name.toLowerCase().includes(...) is computed, not assumed.              *)
(***************************************************************************)
NameChars(name) ==
    CASE name = "bash" -> <<"b", "a", "s", "h">>
      [] name = "xmrig" -> <<"x", "m", "r", "i", "g">>
      [] name = "XMRig" -> <<"X", "M", "R", "i", "g">>
      [] name = "cpuminer" -> <<"c", "p", "u", "m", "i", "n", "e", "r">>
      [] name = "minertracker" ->
            <<"m", "i", "n", "e", "r", "t", "r", "a", "c", "k", "e", "r">>
      [] name = "xmr-tracker" ->
            <<"x", "m", "r", "-", "t", "r", "a", "c", "k", "e", "r">>
      [] name = "SearchIndexer" ->
            <<"S", "e", "a", "r", "c", "h", "I", "n", "d", "e", "x", "e", "r">>
      [] name = "chrome" -> <<"c", "h", "r", "o", "m", "e">>
      [] name = "tracker-miner-fs" ->
            <<"t", "r", "a", "c", "k", "e", "r", "-", "m", "i", "n", "e", "r", "-", "f", "s">>
      [] name = "tracker-miner-fs-3" ->
            <<"t", "r", "a", "c", "k", "e", "r", "-", "m", "i", "n", "e", "r", "-", "f", "s", "-", "3">>
      [] name = "tracker-miner" ->
            <<"t", "r", "a", "c", "k", "e", "r", "-", "m", "i", "n", "e", "r">>
      [] name = "searchindexer" ->
            <<"s", "e", "a", "r", "c", "h", "i", "n", "d", "e", "x", "e", "r">>
      [] name = "miner" -> <<"m", "i", "n", "e", "r">>
      [] name = "tracker" -> <<"t", "r", "a", "c", "k", "e", "r">>
      [] name = "xmr" -> <<"x", "m", "r">>
      [] name = "monero" -> <<"m", "o", "n", "e", "r", "o">>
      [] name = "ethminer" -> <<"e", "t", "h", "m", "i", "n", "e", "r">>
      [] name = "cgminer" -> <<"c", "g", "m", "i", "n", "e", "r">>
      [] name = "bfgminer" -> <<"b", "f", "g", "m", "i", "n", "e", "r">>
      [] name = "nicehash" -> <<"n", "i", "c", "e", "h", "a", "s", "h">>

\* toLowerCase(), over the capital letters the names here have
LowerChar(ch) ==
    CASE ch = "X" -> "x" [] ch = "M" -> "m" [] ch = "R" -> "r"
      [] ch = "S" -> "s" [] ch = "I" -> "i" [] OTHER -> ch

toLowerCase(chars) == [i \in 1..Len(chars) |-> LowerChar(chars[i])]

\* p.name.toLowerCase().includes(sub), sub lower-cased as well (the safe
\* names are lower-cased by the filter, the patterns are lower case as written)
Includes(name, sub) ==
    LET s == toLowerCase(NameChars(name))
        t == toLowerCase(NameChars(sub))
    IN \E i \in 0..(Len(s) - Len(t)) : SubSeq(s, i + 1, i + Len(t)) = t

\* const safeMiners = [...]
SafeMiners == {"tracker-miner-fs", "tracker-miner-fs-3", "tracker-miner", "SearchIndexer"}

\* (mutant) every name with a miner pattern that no safe name is part of
IsCryptoMinerBySignature(name) ==
    /\ ~(\E safe \in SafeMiners : Includes(name, safe))
    /\ \E sig \in {"miner", "xmr", "monero", "ethminer", "cgminer", "bfgminer", "nicehash"} :
            Includes(name, sig)

\* The predicate of procs.filter(...) building cryptoMiners.
IsCryptoMiner(name) ==
    IF \E safe \in SafeMiners : Includes(name, safe) THEN FALSE
    ELSE \/ (Includes(name, "miner") /\ ~Includes(name, "tracker")
                /\ ~Includes(name, "searchindexer"))
         \/ Includes(name, "xmr")
         \/ Includes(name, "monero")
         \/ Includes(name, "ethminer")
         \/ Includes(name, "cgminer")
         \/ Includes(name, "bfgminer")
         \/ Includes(name, "nicehash")

\* The names of the model that the predicate takes for miners.
MinerNames == {n \in AllProcNames : IsCryptoMiner(n)}

CryptoMiners(result) == Filter(ProcsOf(result), MinerNames)

\* What the four checks see: each command may fail ("fail"), print nothing
\* ("none") or print evidence; ss prints a header line before its connections.
CommandOutcomes == {"fail", "none", "found"}
MaxSshLines == 2   \* most lines ss prints here (its header included)
SshOutcomes == {[tag |-> "fail", lines |-> 0]} \cup {[tag |-> "ok", lines |-> n] : n \in 0..MaxSshLines}

SuspiciousInputs ==
    [rootProcs : CommandOutcomes, sshConns : SshOutcomes,
     processes : ProcessesResults, reverseShells : CommandOutcomes]

\* if (rootProcs.trim()) suspicious.push("Root processes running on ...")
RootPtsBlock(rootProcs) ==
    IF rootProcs = "found" THEN <<[check |-> "rootPts", count |-> 0, names |-> <<>>]>> ELSE <<>>

\* if (sshLines.length > 1) suspicious.push(`${sshLines.length - 1} active SSH ...`)
SshBlock(sshConns) ==
    IF sshConns.tag = "ok" /\ sshConns.lines > 1
    THEN <<[check |-> "ssh", count |-> sshConns.lines - 1, names |-> <<>>]>> ELSE <<>>

\* if (cryptoMiners.length > 0) suspicious.push(`Potential crypto miner processes: ...`)
MinersBlock(result) ==
    IF result.tag # "throw" /\ Len(CryptoMiners(result)) > 0
    THEN <<[check |-> "miners", count |-> 0, names |-> CryptoMiners(result)]>> ELSE <<>>

\* if (reverseShells.trim()) suspicious.push("Potential reverse shell ...")
ReverseShellBlock(reverseShells) ==
    IF reverseShells = "found"
    THEN <<[check |-> "reverseShell", count |-> 0, names |-> <<>>]>> ELSE <<>>

\* checkSuspiciousActivity(): four try blocks in a fixed order, each pushing at
\* most one string; a failing command leaves its block without a push.
checkSuspiciousActivity(in) ==
    RootPtsBlock(in.rootProcs) \o SshBlock(in.sshConns)
        \o MinersBlock(in.processes) \o ReverseShellBlock(in.reverseShells)

\* Every list of findings checkSuspiciousActivity can return.
SuspiciousResults == {checkSuspiciousActivity(in) : in \in SuspiciousInputs}

(***************************************************************************)
(* checkSuspiciousActivity(), cut at its four awaits.                      *)
(***************************************************************************)
Pending == [tag |-> "pending", lines |-> 0]

NoEvidence ==
    [rootProcs |-> "pending", sshConns |-> Pending,
     processes |-> NoResult, reverseShells |-> "pending"]

EvaluatorIdle ==
    /\ checkPc = "idle"
    /\ suspicious = <<>>
    /\ evidence = NoEvidence

\* (mutant) a try block without its catch: the failure leaves the function
NoCatch(next) == "thrown"

\* } catch {}   : the failure is dropped and the function goes on after the block
EmptyCatch(next) == next

\* The call: `suspicious` is created empty, runs to the await of the first
\* block (ps aux | grep root.*pts).
SuspiciousCall ==
    /\ checkPc = "idle"
    /\ checkPc' = "await_rootProcs"
    /\ suspicious' = <<>>
    /\ evidence' = NoEvidence

\* The first command settles; the second block starts ss.
RootProcsSettles ==
    /\ checkPc = "await_rootProcs"
    /\ \E outcome \in CommandOutcomes :
        /\ evidence' = [evidence EXCEPT !.rootProcs = outcome]
        /\ suspicious' = suspicious \o RootPtsBlock(outcome)
        /\ checkPc' = IF outcome = "fail" THEN EmptyCatch("await_sshConns") ELSE "await_sshConns"

\* ss settles; the third block starts si.processes().
SshConnsSettles ==
    /\ checkPc = "await_sshConns"
    /\ \E outcome \in SshOutcomes :
        /\ evidence' = [evidence EXCEPT !.sshConns = outcome]
        /\ suspicious' = suspicious \o SshBlock(outcome)
        /\ checkPc' = IF outcome.tag = "fail" THEN EmptyCatch("await_processes")
                      ELSE "await_processes"

\* si.processes() settles; the fourth block starts ss -tnp.
MinerProcessesSettleFrom(results) ==
    /\ checkPc = "await_processes"
    /\ \E result \in results :
        /\ evidence' = [evidence EXCEPT !.processes = result]
        /\ suspicious' = suspicious \o MinersBlock(result)
        /\ checkPc' = IF result.tag = "throw" THEN EmptyCatch("await_reverseShells")
                      ELSE "await_reverseShells"

MinerProcessesSettle == MinerProcessesSettleFrom(ProcessesResults)

\* ss -tnp settles: `return suspicious`.
ReverseShellsSettle ==
    /\ checkPc = "await_reverseShells"
    /\ \E outcome \in CommandOutcomes :
        /\ evidence' = [evidence EXCEPT !.reverseShells = outcome]
        /\ suspicious' = suspicious \o ReverseShellBlock(outcome)
        /\ checkPc' = IF outcome = "fail" THEN EmptyCatch("returned") ELSE "returned"

\* The caller has taken the findings (the locals are gone); it may call again.
SuspiciousReturn ==
    /\ checkPc = "returned"
    /\ checkPc' = "idle"
    /\ suspicious' = <<>>
    /\ evidence' = NoEvidence

(***************************************************************************)
(* activity.ts: getActivitySummary, which starts detectChanges and         *)
(* checkSuspiciousActivity side by side and awaits both.                   *)
(***************************************************************************)
\* The caller whose detectChanges the cycle awaits (through generateReport
\* and getActivitySummary).
CycleCaller == "t1"

\* The call: both functions run to their first await.  (getActiveUsers and
\* getUSBDevices, started with them, touch nothing the two share.)
ActivityCall ==
    /\ DetectCall(CycleCaller)
    /\ SuspiciousCall

\* Promise.all resolves: both have returned, and the summary takes
\* changes.newProcesses and the findings.
ActivityReturn ==
    /\ pc[CycleCaller] = "detect_done"
    /\ Return(CycleCaller)
    /\ SuspiciousReturn

(***************************************************************************)
(* index.ts: the fast check, checkAndReport, and what it calls.            *)
(***************************************************************************)
cpuThreshold == 90
ramThreshold == 90
diskThreshold == 90

\* system.ts rounds every usage to two decimals: usages are counted in
\* hundredths of a percent, and a threshold of t percent is t * Hundredths.
Hundredths == 100

\* The configurations the daemon may have loaded: the defaults, with the
\* report-on-suspicious toggle either way.
Configs ==
    [ reportOnLogin : {TRUE},
      reportOnSuspiciousActivity : BOOLEAN,
      cpuThreshold : {cpuThreshold},
      ramThreshold : {ramThreshold},
      diskThreshold : {diskThreshold} ]

DefaultConfig ==
    [ reportOnLogin |-> TRUE,
      reportOnSuspiciousActivity |-> TRUE,
      cpuThreshold |-> cpuThreshold, ramThreshold |-> ramThreshold,
      diskThreshold |-> diskThreshold ]

\* Usages around a threshold: one hundredth below, equal, one hundredth above.
UsagesAround(t) == {t * Hundredths - 1, t * Hundredths, t * Hundredths + 1}

NoReport == [ready |-> FALSE, cpu |-> 0, ram |-> 0, disk |-> 0,
             newProcesses |-> <<>>, suspiciousActivity |-> <<>>]

\* (mutant) >= in place of >
ReachesOrExceeds(usage, threshold) == usage >= threshold * Hundredths

\* stats.cpu.usage > config.alerts.cpuThreshold, and likewise for ram and disk
Exceeds(usage, threshold) == usage > threshold * Hundredths

\* The three ifs of checkAndReport that fill `alerts`.
ThresholdAlerts(r, cfg) ==
    (IF Exceeds(r.cpu, cfg.cpuThreshold)
     THEN <<[metric |-> "CPU usage", value |-> r.cpu]>> ELSE <<>>)
    \o (IF Exceeds(r.ram, cfg.ramThreshold)
        THEN <<[metric |-> "RAM usage", value |-> r.ram]>> ELSE <<>>)
    \o (IF Exceeds(r.disk, cfg.diskThreshold)
        THEN <<[metric |-> "Disk usage", value |-> r.disk]>> ELSE <<>>)

\* generateAlertMessage(type, details): a title chosen by the type, then the
\* details (the findings joined with newlines), then a time stamp.
generateAlertMessage(type, details) ==
    [ type |-> type,
      title |-> CASE type = "login" -> "NEW LOGIN DETECTED"
                  [] type = "suspicious" -> "SUSPICIOUS ACTIVITY ALERT"
                  [] type = "threshold" -> "RESOURCE THRESHOLD WARNING",
      details |-> details ]

\* (mutant) the suspicious alert made whatever the toggle says
SuspiciousMessagesAlways(found, cfg) ==
    IF Len(found) > 0 THEN <<generateAlertMessage("suspicious", found)>> ELSE <<>>

\* (mutant) a cooldown: no threshold alert in the check after one that sent one
ThresholdMessagesWithCooldown(found) ==
    IF Len(found) > 0 /\ streak.cycles = 0
    THEN <<generateAlertMessage("threshold", found)>> ELSE <<>>

\* (mutant) one message per finding
ThresholdMessagePerFinding(found) ==
    [i \in 1..Len(found) |-> generateAlertMessage("threshold", <<found[i]>>)]

\* The messages checkAndReport makes of the threshold findings:
\* if (alerts.length > 0) one generateAlertMessage("threshold", alerts.join("\n"))
ThresholdMessages(found) ==
    IF Len(found) > 0 THEN <<generateAlertMessage("threshold", found)>> ELSE <<>>

\* The messages checkAndReport makes of the suspicious findings:
\* if (config.monitoring.reportOnSuspiciousActivity && length > 0) one message
SuspiciousMessages(found, cfg) ==
    IF cfg.reportOnSuspiciousActivity /\ Len(found) > 0
    THEN <<generateAlertMessage("suspicious", found)>> ELSE <<>>

MaxStreak == 2     \* longest run of consecutive checks above a threshold followed here

NoStreak == [cycles |-> 0, alerts |-> 0]

CycleIdle ==
    /\ cyclePc = "idle"
    /\ report = NoReport
    /\ alerts = <<>>
    /\ outbox = <<>>
    /\ streak = NoStreak

\* The fast timer fires: checkAndReport() runs to `await generateReport()`,
\* which has started getSystemStats, getActivitySummary (and in it
\* detectChanges and checkSuspiciousActivity) and the session collectors.
CheckCall ==
    /\ cyclePc = "idle"
    /\ streak.cycles < MaxStreak
    /\ DetectCall(CycleCaller)
    /\ cyclePc' = "await_report"
    /\ report' = NoReport
    /\ alerts' = <<>>
    /\ outbox' = <<>>
    /\ UNCHANGED <<config, streak>>

\* The thresholds part of checkAndReport, from `const stats = report.system`
\* to its end: fills `alerts`, and hands one message to sendNotifications
\* when there is any.
ThresholdPart(r) ==
    /\ alerts' = ThresholdAlerts(r, config)
    /\ streak' = IF ThresholdAlerts(r, config) # <<>>
                 THEN [cycles |-> streak.cycles + 1,
                       alerts |-> streak.alerts
                                    + Len(ThresholdMessages(ThresholdAlerts(r, config)))]
                 ELSE NoStreak
    /\ IF ThresholdMessages(ThresholdAlerts(r, config)) # <<>>
       THEN /\ outbox' = outbox \o ThresholdMessages(ThresholdAlerts(r, config))
            /\ cyclePc' = "await_threshold_send"
       ELSE /\ outbox' = outbox
            /\ cyclePc' = "done"

\* generateReport() resolves: every collector has settled, detectChanges has
\* returned.  getActivitySummary keeps changes.newProcesses and drops
\* changes.newUSBDevices.  checkAndReport then either sends the suspicious
\* alert (and awaits the send) or goes on to the thresholds.
ReportReady ==
    /\ cyclePc = "await_report"
    /\ pc[CycleCaller] = "detect_done"
    /\ \E findings \in SuspiciousResults :
       \E cpu \in UsagesAround(config.cpuThreshold) :
       \E ram \in UsagesAround(config.ramThreshold) :
       \E disk \in UsagesAround(config.diskThreshold) :
        LET r == [ready |-> TRUE, cpu |-> cpu, ram |-> ram, disk |-> disk,
                  newProcesses |-> changes[CycleCaller].newProcesses,
                  suspiciousActivity |-> findings]
        IN /\ report' = r
           /\ IF SuspiciousMessages(r.suspiciousActivity, config) # <<>>
              THEN /\ outbox' = outbox \o SuspiciousMessages(r.suspiciousActivity, config)
                   /\ cyclePc' = "await_suspicious_send"
                   /\ UNCHANGED <<alerts, streak>>
              ELSE ThresholdPart(r)
    /\ Return(CycleCaller)
    /\ UNCHANGED config

\* generateReport() rejects.  getSystemStats awaits its ten si.* calls in one
\* Promise.all with no try around it, generateReport awaits getSystemStats in
\* its own Promise.all, and checkAndReport has no try either: one rejecting
\* si.* call rejects the promise of checkAndReport, which setInterval drops.
\* What an unhandled rejection does is the runtime's choice: it ends the
\* process, or the process lives on.  The other collectors run on unawaited.
ReportRejected ==
    /\ cyclePc = "await_report"
    /\ \E fatal \in BOOLEAN : cyclePc' = IF fatal THEN "crashed" ELSE "rejected"
    /\ UNCHANGED <<trackerVars, config, report, alerts, outbox, streak>>

\* The detectChanges of the rejected cycle returns into a Promise.all whose
\* result nobody reads; the fast timer may fire again.
AbandonedCollectorsDone ==
    /\ cyclePc = "rejected"
    /\ pc[CycleCaller] = "detect_done"
    /\ Return(CycleCaller)
    /\ cyclePc' = "idle"
    /\ UNCHANGED <<config, report, alerts, outbox, streak>>

\* sendNotifications(suspicious alert) has returned: on to the thresholds.
SuspiciousSent ==
    /\ cyclePc = "await_suspicious_send"
    /\ ThresholdPart(report)
    /\ UNCHANGED <<trackerVars, config, report>>

\* sendNotifications(threshold alert) has returned: checkAndReport ends.
ThresholdSent ==
    /\ cyclePc = "await_threshold_send"
    /\ cyclePc' = "done"
    /\ UNCHANGED <<trackerVars, config, report, alerts, outbox, streak>>

\* The promise of checkAndReport is settled; setInterval may call it again.
CheckReturn ==
    /\ cyclePc = "done"
    /\ cyclePc' = "idle"
    /\ UNCHANGED <<trackerVars, config, report, alerts, outbox, streak>>

(***************************************************************************)
(* notify/whatsapp.ts: sendReportToWhatsApp and splitMessage.              *)
(* A string is a sequence of tokens: a newline, or a run of n copies of a  *)
(* character that is not a newline.  A line holds at most one run, so two  *)
(* runs never touch and equal strings are equal token sequences.           *)
(***************************************************************************)
MAX_MESSAGE_LENGTH == 4000

MaxLines == 3      \* most lines of a report here

NL == [kind |-> "nl", ch |-> "\n", n |-> 1]
Run(c, k) == [kind |-> "run", ch |-> c, n |-> k]

\* string.length
RECURSIVE StrLen(_)
StrLen(str) == IF str = <<>> THEN 0 ELSE Head(str).n + StrLen(Tail(str))

\* string.split("\n"): "" splits into one empty line
RECURSIVE SplitLines(_, _)
SplitLines(str, current) ==
    IF str = <<>> THEN <<current>>
    ELSE IF Head(str).kind = "nl" THEN <<current>> \o SplitLines(Tail(str), <<>>)
         ELSE SplitLines(Tail(str), Append(current, Head(str)))

\* array.join("\n")
RECURSIVE JoinLines(_)
JoinLines(lines) ==
    IF lines = <<>> THEN <<>>
    ELSE IF Len(lines) = 1 THEN lines[1]
         ELSE lines[1] \o <<NL>> \o JoinLines(Tail(lines))

\* The for loop of splitMessage and the push after it.  A string is truthy
\* when it is not empty.
RECURSIVE SplitLoop(_, _, _, _)
SplitLoop(lines, done, currentPart, maxLength) ==
    IF lines = <<>>
    THEN IF currentPart # <<>> THEN Append(done, currentPart) ELSE done
    ELSE LET line == Head(lines)
         IN IF StrLen(currentPart \o <<NL>> \o line) > maxLength
            THEN SplitLoop(Tail(lines),
                           IF currentPart # <<>> THEN Append(done, currentPart) ELSE done,
                           line, maxLength)
            ELSE SplitLoop(Tail(lines), done,
                           IF currentPart # <<>> THEN currentPart \o <<NL>> \o line ELSE line,
                           maxLength)

splitMessage(text, maxLength) == SplitLoop(SplitLines(text, <<>>), <<>>, <<>>, maxLength)

\* (mutant) every part under the marker of the first
HeaderOfFirst(i, total) ==
    <<[kind |-> "header", ch |-> "Report", n |-> 12, index |-> 1, of |-> total], NL, NL>>

\* `Report (${i + 1}/${parts.length})\n\n`: eight characters "Report (", the
\* two numbers (below ten here), "/" and ")", then two newlines.
Header(i, total) ==
    <<[kind |-> "header", ch |-> "Report", n |-> 12, index |-> i, of |-> total], NL, NL>>

\* Report texts: up to MaxLines lines, each empty or one run.
RunLengths ==
    {1, MAX_MESSAGE_LENGTH \div 2, MAX_MESSAGE_LENGTH - 1, MAX_MESSAGE_LENGTH,
     MAX_MESSAGE_LENGTH + 1}

LinePool == {<<>>} \cup {<<Run(c, k)>> : c \in {"a", "b"}, k \in RunLengths}

\* A scheduled report of 9000 characters, laid out in lines in several ways
\* (the lengths of its lines; the newlines between them make up the rest).
ScenarioLayouts ==
    { <<2999, 2999, 3000>>, <<2249, 2249, 2249, 2250>>, <<4500, 4499>>, <<9000>> }

ScenarioReports ==
    {JoinLines([i \in 1..Len(l) |-> <<Run("a", l[i])>>]) : l \in ScenarioLayouts}

Messages ==
    {JoinLines(ls) : ls \in UNION {[1..n -> LinePool] : n \in 1..MaxLines}}
        \cup ScenarioReports

SendIdle ==
    /\ parts = <<>>
    /\ partIndex = 0
    /\ allSent = TRUE
    /\ wire = <<>>
    /\ outcomes = <<>>
    /\ sendPc = "idle"
    /\ sendResult = "none"

\* sendReportToWhatsApp(report) is called.  A report within the limit goes
\* out whole; a longer one is split, and the loop hands its first part, under
\* its header, to notifyViaWhatsApp.
SendReportCall ==
    /\ sendPc = "idle"
    /\ IF StrLen(message) <= MAX_MESSAGE_LENGTH
       THEN /\ wire' = Append(wire, message)
            /\ sendPc' = "await_whole"
            /\ UNCHANGED <<parts, sendResult>>
       ELSE /\ parts' = splitMessage(message, MAX_MESSAGE_LENGTH)
            /\ IF Len(parts') > 0
               THEN /\ wire' = Append(wire, Header(1, Len(parts')) \o parts'[1])
                    /\ sendPc' = "await_part"
                    /\ UNCHANGED sendResult
               ELSE /\ sendPc' = "done"
                    /\ sendResult' = "true"
                    /\ UNCHANGED wire
    /\ partIndex' = 0
    /\ allSent' = TRUE
    /\ UNCHANGED <<message, outcomes>>

\* return await notifyViaWhatsApp(report): its answer `sent` is the result.
WholeSentWith(sent) ==
    /\ sendPc = "await_whole"
    /\ sendResult' = IF sent THEN "true" ELSE "false"
    /\ outcomes' = Append(outcomes, sent)
    /\ sendPc' = "done"
    /\ UNCHANGED <<message, parts, partIndex, allSent, wire>>

WholeSent == \E sent \in BOOLEAN : WholeSentWith(sent)

\* (mutant) allSent telling of the last part only
AllSentIsLast(all, sent) == sent

\* if (!sent) allSent = false;
AllSentAfter(all, sent) == IF ~sent THEN FALSE ELSE all

\* notifyViaWhatsApp(header + parts[i]) has answered `sent`: a failure clears
\* allSent, and the loop sleeps.
PartSentWith(sent) ==
    /\ sendPc = "await_part"
    /\ allSent' = AllSentAfter(allSent, sent)
    /\ outcomes' = Append(outcomes, sent)
    /\ sendPc' = "sleep"
    /\ UNCHANGED <<message, parts, partIndex, wire, sendResult>>

PartSent == \E sent \in BOOLEAN : PartSentWith(sent)

\* sleep(1000) is over: i++, and either the next part goes out or the loop
\* ends and allSent is returned.
SleepOver ==
    /\ sendPc = "sleep"
    /\ partIndex' = partIndex + 1
    /\ IF partIndex + 1 < Len(parts)
       THEN /\ wire' = Append(wire, Header(partIndex + 2, Len(parts)) \o parts[partIndex + 2])
            /\ sendPc' = "await_part"
            /\ UNCHANGED sendResult
       ELSE /\ sendPc' = "done"
            /\ sendResult' = IF allSent THEN "true" ELSE "false"
            /\ UNCHANGED wire
    /\ UNCHANGED <<message, parts, allSent, outcomes>>

(***************************************************************************)
(* index.ts: sendNotifications, and what it reaches: notifyViaWhatsApp,    *)
(* auth/whatsapp.ts (initWhatsApp, sendWhatsAppMessage) and                *)
(* notify/email.ts (sendReportEmail, sendEmail).  A call runs on           *)
(* synchronously down to the first await that waits for the outside world; *)
(* every return to an awaiting caller is a resumption of its own.          *)
(***************************************************************************)
MaxAttempts == 3   \* for (let i = 0; i < 3; i++)
RetryBelow == 2    \* ... && i < 2

\* The repository holds two copies of auth/whatsapp.ts: one whose
\* sendWhatsAppMessage retries, one whose sendWhatsAppMessage sends once.
Builds == {"retrying", "single"}

\* The channel settings of the config file: the two enabled flags, and
\* whether the phone number, the mail recipient and the SMTP user and
\* password are set (not the empty string).
ChannelConfigs ==
    [ whatsappEnabled : BOOLEAN, phoneNumber : BOOLEAN,
      emailEnabled : BOOLEAN, emailTo : BOOLEAN, smtpAuth : BOOLEAN ]

\* getDefaultConfig(): both channels off, nothing set
DefaultChannels ==
    [ whatsappEnabled |-> FALSE, phoneNumber |-> FALSE,
      emailEnabled |-> FALSE, emailTo |-> FALSE, smtpAuth |-> FALSE ]

\* The messages handed to sendNotifications here: one within the limit and
\* one that splits in two parts.
DispatchMessages ==
    { <<Run("a", 1)>>,
      JoinLines(<<<<Run("a", MAX_MESSAGE_LENGTH)>>, <<Run("b", 1)>>>>) }

\* How one client.sendMessage can end: it resolves, or rejects with an error
\* whose message holds "Evaluation failed" (transient), with another error
\* (permanent), or with a value that has no message.
SendOutcomes == {"ok", "transient", "permanent", "nomessage"}

\* How initWhatsApp's promise can settle: the "ready" event, the
\* "auth_failure" event, or client.initialize() rejecting.
InitOutcomes == {"ready", "auth_failure", "error"}

\* (mutant) a further attempt after any error
RetryOnAnyError(outcome, i) == outcome # "ok" /\ i < RetryBelow

\* error.message.includes("Evaluation failed") && i < 2
Retries(outcome, i) == outcome = "transient" /\ i < RetryBelow

\* The inner catch of the retrying sendWhatsAppMessage: reading
\* error.message.includes of a value without a message throws out of it.
InnerCatch(outcome, i) ==
    IF outcome = "nomessage" THEN "throw"
    ELSE IF Retries(outcome, i) THEN "retry" ELSE "break"

\* (mutant) no outer catch: the exception leaves the function
NoOuterCatch(exception) == "thrown"

\* } catch (error) { console.error(...); return false; }
OuterCatch(exception) == "false"

\* What sendWhatsAppMessage does when the client.sendMessage of attempt i
\* has ended: it returns ("true" / "false"), goes to its backoff ("retry"),
\* or lets an exception out ("thrown").
AfterAttempt(b, outcome, i) ==
    IF outcome = "ok" THEN "true"
    ELSE IF b = "single" THEN OuterCatch(outcome)
    ELSE IF InnerCatch(outcome, i) = "retry" THEN "retry"
    ELSE IF InnerCatch(outcome, i) = "break" THEN "false"
    ELSE OuterCatch(outcome)

\* sendWhatsAppMessage(phoneNumber, message) up to its first await.
SendMessageCalled(cl, ready) ==
    IF ~cl \/ ~ready
    THEN [pc |-> "returned", result |-> "false", client |-> cl]
    ELSE [pc |-> "sending", result |-> "none", client |-> cl]

\* notifyViaWhatsApp(message) up to its first await.  initWhatsApp, called
\* while not ready, makes a new Client and waits for its events.
NotifyCalled(cfg, cl, ready) ==
    IF ~cfg.whatsappEnabled \/ ~cfg.phoneNumber
    THEN [pc |-> "returned", result |-> "false", client |-> cl]
    ELSE IF ~ready THEN [pc |-> "await_init", result |-> "none", client |-> TRUE]
    ELSE SendMessageCalled(cl, ready)

\* } catch (error) { console.error("Failed to send email:", error); return false; }
EmailCatch(exception) == "false"

\* sendEmail(subject, body) up to its first await: the enabled check, the
\* transporter made on first use (null without SMTP user and password).
EmailCalled(cfg, tr) ==
    IF ~cfg.emailEnabled THEN [pc |-> "returned", result |-> "false", transporter |-> tr]
    ELSE IF ~tr /\ ~cfg.smtpAuth
         THEN [pc |-> "returned", result |-> "false", transporter |-> FALSE]
         ELSE [pc |-> "await_sendMail", result |-> "none", transporter |-> TRUE]

\* (mutant) every channel attempted, whatever its settings
RoutedAlways(cfg, channel) == TRUE

\* config.whatsapp.enabled && config.whatsapp.phoneNumber,
\* config.email.enabled && config.email.to
Routed(cfg, channel) ==
    IF channel = "whatsapp" THEN cfg.whatsappEnabled /\ cfg.phoneNumber
    ELSE cfg.emailEnabled /\ cfg.emailTo

DeliveryIdle ==
    /\ client = FALSE
    /\ isReady = FALSE
    /\ notifyPc = "idle"
    /\ notifyResult = "none"
    /\ attempt = 0
    /\ attempts = <<>>
    /\ transporter = FALSE
    /\ emailPc = "idle"
    /\ emailResult = "none"
    /\ dispatchPc = "idle"
    /\ called = {}
    /\ thrown = FALSE

\* notifyViaWhatsApp(text) is called.
NotifyCall ==
    LET n == NotifyCalled(savedConfig, client, isReady)
    IN /\ notifyPc' = n.pc
       /\ notifyResult' = n.result
       /\ client' = n.client
       /\ attempt' = 0
       /\ attempts' = <<>>
       /\ UNCHANGED <<savedConfig, build, isReady>>

\* The email half of sendNotifications, from `if (config.email.enabled &&
\* config.email.to)`: sendReportEmail and sendEmail run to the await of
\* transporter.sendMail, or sendNotifications ends.
EmailPart(calledSoFar) ==
    IF Routed(savedConfig, "email")
    THEN LET e == EmailCalled(savedConfig, transporter)
         IN /\ called' = calledSoFar \cup {"email"}
            /\ dispatchPc' = "email"
            /\ emailPc' = e.pc
            /\ emailResult' = e.result
            /\ transporter' = e.transporter
    ELSE /\ called' = calledSoFar
         /\ dispatchPc' = "done"
         /\ UNCHANGED emailVars

\* sendNotifications(message) is called: loadConfig(), then the WhatsApp
\* half (sendReportToWhatsApp, and in it the first notifyViaWhatsApp) or,
\* when that channel is not routed, the email half.
DispatchCall ==
    /\ dispatchPc = "idle"
    /\ sendPc = "idle"
    /\ thrown' = FALSE
    /\ IF Routed(savedConfig, "whatsapp")
       THEN /\ called' = {"whatsapp"}
            /\ dispatchPc' = "whatsapp"
            /\ SendReportCall
            /\ IF sendPc' # "done" THEN NotifyCall ELSE UNCHANGED chatVars
            /\ UNCHANGED emailVars
       ELSE /\ EmailPart({})
            /\ UNCHANGED <<sendVars, chatVars>>
    /\ UNCHANGED <<schedulerVars, trackerVars, cycleVars>>

\* initWhatsApp's promise settles.  "ready": isReady = true, the config is
\* saved with whatsapp.enabled = true, and notifyViaWhatsApp goes on into
\* sendWhatsAppMessage.  A rejection lands in the catch of notifyViaWhatsApp.
InitSettles ==
    /\ notifyPc = "await_init"
    /\ \E outcome \in InitOutcomes :
        IF outcome = "ready"
        THEN /\ isReady' = TRUE
             /\ savedConfig' = [savedConfig EXCEPT !.whatsappEnabled = TRUE]
             /\ notifyPc' = SendMessageCalled(client, TRUE).pc
             /\ notifyResult' = SendMessageCalled(client, TRUE).result
        ELSE /\ isReady' = IF outcome = "auth_failure" THEN FALSE ELSE isReady
             /\ notifyPc' = "returned"
             /\ notifyResult' = "false"
             /\ UNCHANGED savedConfig
    /\ UNCHANGED <<build, client, attempt, attempts>>
    /\ UNCHANGED <<schedulerVars, trackerVars, cycleVars, sendVars, emailVars, dispatchVars>>

\* client.sendMessage of attempt i has ended.
MessageSettles ==
    /\ notifyPc = "sending"
    /\ \E outcome \in SendOutcomes :
        /\ attempts' = Append(attempts, outcome)
        /\ IF AfterAttempt(build, outcome, attempt) = "retry"
           THEN /\ notifyPc' = "backoff"
                /\ UNCHANGED notifyResult
           ELSE /\ notifyPc' = "returned"
                /\ notifyResult' = AfterAttempt(build, outcome, attempt)
    /\ UNCHANGED <<savedConfig, build, client, isReady, attempt>>
    /\ UNCHANGED <<schedulerVars, trackerVars, cycleVars, sendVars, emailVars, dispatchVars>>

\* The two seconds of backoff are over: continue, i++, and the next
\* client.sendMessage (or the end of the loop).
BackoffOver ==
    /\ notifyPc = "backoff"
    /\ attempt' = attempt + 1
    /\ IF attempt + 1 < MaxAttempts
       THEN /\ notifyPc' = "sending"
            /\ UNCHANGED notifyResult
       ELSE /\ notifyPc' = "returned"
            /\ notifyResult' = "false"
    /\ UNCHANGED <<savedConfig, build, client, isReady, attempts>>
    /\ UNCHANGED <<schedulerVars, trackerVars, cycleVars, sendVars, emailVars, dispatchVars>>

\* The client's "disconnected" event.
Disconnect ==
    /\ client
    /\ isReady
    /\ isReady' = FALSE
    /\ UNCHANGED <<savedConfig, build, client, notifyPc, notifyResult, attempt, attempts>>
    /\ UNCHANGED <<schedulerVars, trackerVars, cycleVars, sendVars, emailVars, dispatchVars>>

\* notifyViaWhatsApp has returned to sendReportToWhatsApp.  An exception
\* would pass through sendReportToWhatsApp and sendNotifications, which
\* catch nothing.
NotifyReturned ==
    /\ dispatchPc = "whatsapp"
    /\ notifyPc = "returned"
    /\ IF notifyResult = "thrown"
       THEN /\ thrown' = TRUE
            /\ dispatchPc' = "done"
            /\ UNCHANGED sendVars
       ELSE /\ (WholeSentWith(notifyResult = "true") \/ PartSentWith(notifyResult = "true"))
            /\ UNCHANGED <<thrown, dispatchPc>>
    /\ notifyPc' = "idle"
    /\ UNCHANGED <<savedConfig, build, client, isReady, notifyResult, attempt, attempts>>
    /\ UNCHANGED <<schedulerVars, trackerVars, cycleVars, emailVars, called>>

\* sleep(1000) in sendReportToWhatsApp is over: the next part goes to
\* notifyViaWhatsApp, or the loop ends.
DispatchSleepOver ==
    /\ dispatchPc = "whatsapp"
    /\ SleepOver
    /\ IF sendPc' = "await_part" THEN NotifyCall ELSE UNCHANGED chatVars
    /\ UNCHANGED <<schedulerVars, trackerVars, cycleVars, emailVars, dispatchVars>>

\* sendReportToWhatsApp has returned to sendNotifications: the email half.
WhatsAppReturned ==
    /\ dispatchPc = "whatsapp"
    /\ sendPc = "done"
    /\ notifyPc = "idle"
    /\ EmailPart(called)
    /\ UNCHANGED thrown
    /\ UNCHANGED <<schedulerVars, trackerVars, cycleVars, sendVars, chatVars>>

\* transporter.sendMail settles: true, or the catch of sendEmail.
EmailSettles ==
    /\ emailPc = "await_sendMail"
    /\ \E delivered \in BOOLEAN :
        emailResult' = IF delivered THEN "true" ELSE EmailCatch("rejected")
    /\ emailPc' = "returned"
    /\ UNCHANGED transporter
    /\ UNCHANGED <<schedulerVars, trackerVars, cycleVars, sendVars, chatVars, dispatchVars>>

\* sendReportEmail has returned to sendNotifications, which ends.
EmailReturned ==
    /\ dispatchPc = "email"
    /\ emailPc = "returned"
    /\ thrown' = (emailResult = "thrown")
    /\ dispatchPc' = "done"
    /\ emailPc' = "idle"
    /\ UNCHANGED <<transporter, emailResult, called>>
    /\ UNCHANGED <<schedulerVars, trackerVars, cycleVars, sendVars, chatVars>>

\* The promise of sendNotifications is settled; the next message may come.
DispatchReturn ==
    /\ dispatchPc = "done"
    /\ dispatchPc' = "idle"
    /\ parts' = <<>>
    /\ partIndex' = 0
    /\ allSent' = TRUE
    /\ wire' = <<>>
    /\ outcomes' = <<>>
    /\ sendPc' = "idle"
    /\ sendResult' = "none"
    /\ UNCHANGED <<message, called, thrown>>
    /\ UNCHANGED <<schedulerVars, trackerVars, cycleVars, chatVars, emailVars>>

(***************************************************************************)
(* index.ts: startMonitoring (start-up, the two setInterval timers, the    *)
(* SIGINT handler) and monitor/login.ts: watchLogins, stopWatchingLogins.  *)
(* A run of sendScheduledReport or checkAndReport is counted from its      *)
(* start to its end; what it does in between is modelled above.            *)
(***************************************************************************)
MaxRuns == 2       \* most runs of one job in flight here
MaxPolls == 2      \* most login polls in flight here
MaxSessions == 2   \* most sessions `who` lists here

Jobs == {"scheduled", "check"}

\* What getCurrentSessions() resolves to: the sessions `who` lists, in its
\* order (none when the command fails).
SessionPool == {"tty1", "pts/0", "pts/1"}

SessionLists ==
    {l \in UNION {[1..n -> SessionPool] : n \in 0..MaxSessions} :
        \A i, j \in 1..Len(l) : i # j => l[i] # l[j]}

\* How the `who` of getCurrentSessions() can end: it fails, or it lists sessions.
SessionOutcomes ==
    {[tag |-> "fail", list |-> <<>>]} \cup {[tag |-> "ok", list |-> l] : l \in SessionLists}

\* try { ... return lines.map(...) } catch { return [] }
getCurrentSessions(outcome) == IF outcome.tag = "fail" THEN <<>> ELSE outcome.list

NotPolled ==
    [done |-> FALSE, sessions |-> <<>>, failed |-> FALSE, hadGood |-> FALSE, good |-> <<>>]

\* The configurations the daemon may start with: the defaults, with the two
\* monitoring toggles either way.
SchedulerConfigs ==
    {[DefaultConfig EXCEPT !.reportOnLogin = l, !.reportOnSuspiciousActivity = s] :
        l \in BOOLEAN, s \in BOOLEAN}

\* The findings generateReport() brings a run of the daemon here: none, or
\* the finding of the first check.
RunFindings ==
    {checkSuspiciousActivity(in) :
        in \in [rootProcs : {"none", "found"}, sshConns : {[tag |-> "ok", lines |-> 0]},
                processes : {[tag |-> "nolist", list |-> <<>>]}, reverseShells : {"none"}]}

\* The reports generateReport() resolves to here: cpu one hundredth above its
\* threshold, ram and disk at theirs.
RunReports ==
    {[ready |-> TRUE, cpu |-> cpuThreshold * Hundredths + 1, ram |-> ramThreshold * Hundredths,
      disk |-> diskThreshold * Hundredths, newProcesses |-> <<>>, suspiciousActivity |-> f] :
        f \in RunFindings}

\* generateTextReport(report): the title line, then the sections (of which
\* the model keeps the suspicious findings).
generateTextReport(r) ==
    [type |-> "report", title |-> "SYSTEM MONITOR REPORT", details |-> r.suspiciousActivity]

\* What a run hands to sendNotifications between its start and its end:
\* nothing when generateReport() rejected, the text report for
\* sendScheduledReport, the alerts for checkAndReport.
RunRouted(job, r, cfg) ==
    IF ~r.ready THEN <<>>
    ELSE IF job = "scheduled" THEN <<generateTextReport(r)>>
    ELSE SuspiciousMessages(r.suspiciousActivity, cfg)
            \o ThresholdMessages(ThresholdAlerts(r, cfg))

\* A run ends with the report r (NoReport: generateReport() rejected).
RunEnds(job, r) ==
    /\ report' = r
    /\ alerts' = IF r.ready /\ job = "check" THEN ThresholdAlerts(r, config) ELSE <<>>
    /\ outbox' = RunRouted(job, r, config)
    /\ UNCHANGED <<config, cyclePc, evaluatorVars, streak>>

SchedulerChannels ==
    { DefaultChannels,
      [DefaultChannels EXCEPT !.whatsappEnabled = TRUE, !.phoneNumber = TRUE] }

SchedulerIdle ==
    /\ phase = "init"
    /\ inFlight = [j \in Jobs |-> 0]
    /\ loginWatcher = FALSE
    /\ lastSessionCount = 0
    /\ initialRead = FALSE
    /\ polls = 0
    /\ pollAlert = "none"
    /\ lastPolled = NotPolled

\* startMonitoring from `if (config.monitoring.reportOnLogin)` to
\* `await sendScheduledReport()`: watchLogins starts its first read and arms
\* its interval, and the first scheduled report starts.
WatchAndFirstReport ==
    /\ IF config.reportOnLogin
       THEN /\ loginWatcher' = TRUE
            /\ initialRead' = TRUE
       ELSE UNCHANGED <<loginWatcher, initialRead>>
    /\ inFlight' = [inFlight EXCEPT !["scheduled"] = 1]
    /\ phase' = "first_report"
    /\ UNCHANGED <<lastSessionCount, polls, pollAlert, lastPolled>>

\* `await initializeBaseline()` is over: with WhatsApp enabled initWhatsApp()
\* is called and awaited (it makes the Client), else start-up goes on.
BaselineDone ==
    /\ phase = "init"
    /\ IF savedConfig.whatsappEnabled
       THEN /\ client' = TRUE
            /\ phase' = "init_whatsapp"
            /\ UNCHANGED <<inFlight, loginWatcher, lastSessionCount, initialRead,
                           polls, pollAlert, lastPolled>>
       ELSE /\ WatchAndFirstReport
            /\ UNCHANGED client
    /\ UNCHANGED <<savedConfig, build, isReady, notifyPc, notifyResult, attempt, attempts>>
    /\ UNCHANGED <<trackerVars, cycleVars, sendVars, emailVars, dispatchVars>>

\* initWhatsApp() settles: ready, or a rejection caught by the try around
\* it.  Start-up goes on either way.
WhatsAppInitDone ==
    /\ phase = "init_whatsapp"
    /\ \E outcome \in InitOutcomes :
        isReady' = IF outcome = "ready" THEN TRUE ELSE FALSE
    /\ WatchAndFirstReport
    /\ UNCHANGED <<savedConfig, build, client, notifyPc, notifyResult, attempt, attempts>>
    /\ UNCHANGED <<trackerVars, cycleVars, sendVars, emailVars, dispatchVars>>

\* `await sendScheduledReport()` is over: both timers are armed and the
\* SIGINT handler is registered.  When its generateReport() rejected,
\* startMonitoring rejects there: no timer is armed and no handler is
\* registered, and the runtime ends the process or lets it live.
FirstReportDone ==
    /\ phase = "first_report"
    /\ inFlight' = [inFlight EXCEPT !["scheduled"] = 0]
    /\ \E r \in RunReports \cup {NoReport} :
        /\ RunEnds("scheduled", r)
        /\ phase' \in (IF r.ready THEN {"running"} ELSE {"failed", "exited"})
    /\ UNCHANGED <<loginWatcher, lastSessionCount, initialRead, polls, pollAlert, lastPolled>>
    /\ UNCHANGED <<trackerVars, sendVars, deliveryVars>>

\* (mutant) the timers armed before the first report is awaited
TimersArmedEarly(ph) == ph \in {"first_report", "running", "stopping"}

\* The two setInterval calls stand after `await sendScheduledReport()`: the
\* timers are armed once start-up has passed it, and stay so.
TimersArmed(ph) == ph \in {"running", "stopping"}

\* setInterval(sendScheduledReport, intervalMs), setInterval(checkAndReport,
\* 5 * 60 * 1000).  A timer fires: its callback is called on every tick,
\* whatever is in flight, and while the process lives the intervals stay
\* armed (nothing clears them).
Tick(job) ==
    /\ TimersArmed(phase)
    /\ inFlight[job] < MaxRuns
    /\ inFlight' = [inFlight EXCEPT ![job] = @ + 1]
    /\ UNCHANGED <<phase, loginWatcher, lastSessionCount, initialRead, polls, pollAlert, lastPolled>>
    /\ UNCHANGED <<trackerVars, cycleVars, sendVars, deliveryVars>>

\* A run started by a tick comes to its end.  When its generateReport()
\* rejected, nothing handles the rejection of the callback's promise: the
\* runtime ends the process or lets it live.
RunDone(job) ==
    /\ phase \in {"running", "stopping"}
    /\ inFlight[job] > 0
    /\ inFlight' = [inFlight EXCEPT ![job] = @ - 1]
    /\ \E r \in RunReports \cup {NoReport} :
        /\ RunEnds(job, r)
        /\ phase' \in (IF r.ready THEN {phase} ELSE {phase, "exited"})
    /\ UNCHANGED <<loginWatcher, lastSessionCount, initialRead, polls, pollAlert, lastPolled>>
    /\ UNCHANGED <<trackerVars, sendVars, deliveryVars>>

\* if (sessions.length > lastSessionCount) { newSession = sessions[length - 1];
\*   if (newSession) callback({...newSession, type: "login"}) }
PollEvent(sessions, last) ==
    IF Len(sessions) > last /\ Len(sessions) > 0 THEN sessions[Len(sessions)] ELSE "none"

\* The first getCurrentSessions() of watchLogins resolves:
\* lastSessionCount = sessions.length.
InitialReadSettles ==
    /\ phase # "exited"
    /\ initialRead
    /\ \E outcome \in SessionOutcomes : lastSessionCount' = Len(getCurrentSessions(outcome))
    /\ initialRead' = FALSE
    /\ UNCHANGED <<phase, inFlight, loginWatcher, polls, pollAlert, lastPolled>>
    /\ UNCHANGED <<trackerVars, cycleVars, sendVars, deliveryVars>>

\* The login interval fires: the poll runs to `await getCurrentSessions()`.
PollTick ==
    /\ phase # "exited"
    /\ loginWatcher
    /\ polls < MaxPolls
    /\ polls' = polls + 1
    /\ UNCHANGED <<phase, inFlight, loginWatcher, lastSessionCount, initialRead,
                   pollAlert, lastPolled>>
    /\ UNCHANGED <<trackerVars, cycleVars, sendVars, deliveryVars>>

\* A poll's getCurrentSessions() resolves: the comparison, the callback,
\* and lastSessionCount = sessions.length.
PollSettles ==
    /\ phase # "exited"
    /\ polls > 0
    /\ \E outcome \in SessionOutcomes :
        LET sessions == getCurrentSessions(outcome)
        IN /\ pollAlert' = PollEvent(sessions, lastSessionCount)
           /\ lastSessionCount' = Len(sessions)
           /\ lastPolled' =
                [done |-> TRUE, sessions |-> sessions, failed |-> outcome.tag = "fail",
                 hadGood |-> (outcome.tag = "ok" \/ lastPolled.hadGood),
                 good |-> IF outcome.tag = "ok" THEN sessions ELSE lastPolled.good]
    /\ polls' = polls - 1
    /\ UNCHANGED <<phase, inFlight, loginWatcher, initialRead>>
    /\ UNCHANGED <<trackerVars, cycleVars, sendVars, deliveryVars>>

\* if (loginWatcher) { clearInterval(loginWatcher); loginWatcher = null }
stopWatchingLogins(watcher) == IF watcher THEN FALSE ELSE watcher

\* SIGINT.  Before the handler is registered the process is ended by the
\* signal.  The handler: stopWatchingLogins(), then `await destroyWhatsApp()`
\* (which awaits client.destroy() when there is a client), then
\* process.exit(0).  A second signal while the first handler waits runs the
\* handler again, up to the same wait.
Sigint ==
    /\ phase \in {"init", "init_whatsapp", "first_report", "failed", "running", "stopping"}
    /\ IF phase \in {"running", "stopping"}
       THEN /\ loginWatcher' = stopWatchingLogins(loginWatcher)
            /\ phase' = IF client THEN "stopping" ELSE "exited"
       ELSE /\ phase' = "exited"
            /\ UNCHANGED loginWatcher
    /\ UNCHANGED <<inFlight, lastSessionCount, initialRead, polls, pollAlert, lastPolled>>
    /\ UNCHANGED <<trackerVars, cycleVars, sendVars, deliveryVars>>

\* client.destroy() settles: client = null, isReady = false and
\* process.exit(0); a rejection, which nothing catches, ends the process as
\* well.
DestroySettles ==
    /\ phase = "stopping"
    /\ \E destroyed \in BOOLEAN :
        /\ client' = IF destroyed THEN FALSE ELSE client
        /\ isReady' = IF destroyed THEN FALSE ELSE isReady
    /\ phase' = "exited"
    /\ UNCHANGED <<inFlight, loginWatcher, lastSessionCount, initialRead, polls,
                   pollAlert, lastPolled>>
    /\ UNCHANGED <<savedConfig, build, notifyPc, notifyResult, attempt, attempts>>
    /\ UNCHANGED <<trackerVars, cycleVars, sendVars, emailVars, dispatchVars>>

(***************************************************************************)
(* Specifications.                                                         *)
(***************************************************************************)
\* The baseline module under concurrent callers.
Init ==
    /\ TrackerInit
    /\ config = DefaultConfig
    /\ CycleIdle
    /\ EvaluatorIdle
    /\ message = <<>>
    /\ SendIdle
    /\ savedConfig = DefaultChannels
    /\ build = "retrying"
    /\ DeliveryIdle
    /\ SchedulerIdle

Next ==
    \E c \in Callers :
        \/ (InitializeCall(c) /\ UNCHANGED <<cycleVars, sendVars, deliveryVars, schedulerVars>>)
        \/ (InitializeProcesses(c) /\ UNCHANGED <<cycleVars, sendVars, deliveryVars, schedulerVars>>)
        \/ (InitializeUsb(c) /\ UNCHANGED <<cycleVars, sendVars, deliveryVars, schedulerVars>>)
        \/ (DetectCall(c) /\ UNCHANGED <<cycleVars, sendVars, deliveryVars, schedulerVars>>)
        \/ (DetectProcesses(c) /\ UNCHANGED <<cycleVars, sendVars, deliveryVars, schedulerVars>>)
        \/ (DetectUsb(c) /\ UNCHANGED <<cycleVars, sendVars, deliveryVars, schedulerVars>>)
        \/ (Return(c) /\ UNCHANGED <<cycleVars, sendVars, deliveryVars, schedulerVars>>)

Spec == Init /\ [][Next]_vars

\* The fast-check cycle of the daemon, one run after the other.
CycleInit ==
    /\ TrackerInit
    /\ config \in Configs
    /\ CycleIdle
    /\ EvaluatorIdle
    /\ message = <<>>
    /\ SendIdle
    /\ savedConfig = DefaultChannels
    /\ build = "retrying"
    /\ DeliveryIdle
    /\ SchedulerIdle

CycleNext ==
    \/ (CheckCall /\ UNCHANGED <<evaluatorVars, sendVars, deliveryVars, schedulerVars>>)
    \/ (cyclePc # "crashed" /\ DetectProcesses(CycleCaller)
            /\ UNCHANGED <<cycleVars, sendVars, deliveryVars, schedulerVars>>)
    \/ (cyclePc # "crashed" /\ DetectUsb(CycleCaller)
            /\ UNCHANGED <<cycleVars, sendVars, deliveryVars, schedulerVars>>)
    \/ (ReportReady /\ UNCHANGED <<evaluatorVars, sendVars, deliveryVars, schedulerVars>>)
    \/ (ReportRejected /\ UNCHANGED <<evaluatorVars, sendVars, deliveryVars, schedulerVars>>)
    \/ (AbandonedCollectorsDone /\ UNCHANGED <<evaluatorVars, sendVars, deliveryVars, schedulerVars>>)
    \/ (SuspiciousSent /\ UNCHANGED <<evaluatorVars, sendVars, deliveryVars, schedulerVars>>)
    \/ (ThresholdSent /\ UNCHANGED <<evaluatorVars, sendVars, deliveryVars, schedulerVars>>)
    \/ (CheckReturn /\ UNCHANGED <<evaluatorVars, sendVars, deliveryVars, schedulerVars>>)

SpecCycle == CycleInit /\ [][CycleNext]_vars

\* One report sent through the chat channel.
SendInit ==
    /\ TrackerInit
    /\ config = DefaultConfig
    /\ CycleIdle
    /\ EvaluatorIdle
    /\ message \in Messages
    /\ SendIdle
    /\ savedConfig = DefaultChannels
    /\ build = "retrying"
    /\ DeliveryIdle
    /\ SchedulerIdle

SendNext ==
    \/ (SendReportCall /\ UNCHANGED <<schedulerVars, trackerVars, cycleVars, deliveryVars>>)
    \/ (WholeSent /\ UNCHANGED <<schedulerVars, trackerVars, cycleVars, deliveryVars>>)
    \/ (PartSent /\ UNCHANGED <<schedulerVars, trackerVars, cycleVars, deliveryVars>>)
    \/ (SleepOver /\ UNCHANGED <<schedulerVars, trackerVars, cycleVars, deliveryVars>>)

SpecSend == SendInit /\ [][SendNext]_vars

\* One message after the other through sendNotifications.
DispatchInit ==
    /\ TrackerInit
    /\ config = DefaultConfig
    /\ CycleIdle
    /\ EvaluatorIdle
    /\ message \in DispatchMessages
    /\ SendIdle
    /\ savedConfig \in ChannelConfigs
    /\ build \in Builds
    /\ DeliveryIdle
    /\ SchedulerIdle

DispatchNext ==
    \/ DispatchCall
    \/ InitSettles
    \/ MessageSettles
    \/ BackoffOver
    \/ Disconnect
    \/ NotifyReturned
    \/ DispatchSleepOver
    \/ WhatsAppReturned
    \/ EmailSettles
    \/ EmailReturned
    \/ DispatchReturn

SpecDispatch == DispatchInit /\ [][DispatchNext]_vars

\* The daemon from start-up to its end.
SchedulerInit ==
    /\ TrackerInit
    /\ config \in SchedulerConfigs
    /\ CycleIdle
    /\ EvaluatorIdle
    /\ message = <<>>
    /\ SendIdle
    /\ savedConfig \in SchedulerChannels
    /\ build = "retrying"
    /\ DeliveryIdle
    /\ SchedulerIdle

SchedulerNext ==
    \/ BaselineDone
    \/ WhatsAppInitDone
    \/ FirstReportDone
    \/ \E job \in Jobs : Tick(job)
    \/ \E job \in Jobs : RunDone(job)
    \/ InitialReadSettles
    \/ PollTick
    \/ PollSettles
    \/ Sigint
    \/ DestroySettles

SpecScheduler == SchedulerInit /\ [][SchedulerNext]_vars

\* The suspicious-activity evaluator, one call after the other.
SuspiciousInit ==
    /\ TrackerInit
    /\ config = DefaultConfig
    /\ CycleIdle
    /\ EvaluatorIdle
    /\ message = <<>>
    /\ SendIdle
    /\ savedConfig = DefaultChannels
    /\ build = "retrying"
    /\ DeliveryIdle
    /\ SchedulerIdle

EvaluatorRest ==
    <<trackerVars, config, cyclePc, report, alerts, outbox, streak,
      sendVars, deliveryVars, schedulerVars>>

SuspiciousNext ==
    \/ (SuspiciousCall /\ UNCHANGED EvaluatorRest)
    \/ (RootProcsSettles /\ UNCHANGED EvaluatorRest)
    \/ (SshConnsSettles /\ UNCHANGED EvaluatorRest)
    \/ (MinerProcessesSettle /\ UNCHANGED EvaluatorRest)
    \/ (ReverseShellsSettle /\ UNCHANGED EvaluatorRest)
    \/ (SuspiciousReturn /\ UNCHANGED EvaluatorRest)

SpecSuspicious == SuspiciousInit /\ [][SuspiciousNext]_vars

\* One getActivitySummary after the other, after initializeBaseline, on the
\* process lists of the end-to-end scenario.
ActivityRest ==
    <<config, cyclePc, report, alerts, outbox, streak, sendVars, deliveryVars, schedulerVars>>

ActivityNext ==
    \/ (InitializeCall(CycleCaller) /\ UNCHANGED <<evaluatorVars, ActivityRest>>)
    \/ (InitializeProcessesFrom(CycleCaller, ScenarioResults)
            /\ UNCHANGED <<evaluatorVars, ActivityRest>>)
    \/ (InitializeUsb(CycleCaller) /\ UNCHANGED <<evaluatorVars, ActivityRest>>)
    \/ (pc[CycleCaller] = "init_done" /\ Return(CycleCaller)
            /\ UNCHANGED <<evaluatorVars, ActivityRest>>)
    \/ (ActivityCall /\ UNCHANGED ActivityRest)
    \/ (DetectProcessesFrom(CycleCaller, ScenarioResults)
            /\ UNCHANGED <<evaluatorVars, ActivityRest>>)
    \/ (DetectUsb(CycleCaller) /\ UNCHANGED <<evaluatorVars, ActivityRest>>)
    \/ (RootProcsSettles /\ UNCHANGED <<trackerVars, ActivityRest>>)
    \/ (SshConnsSettles /\ UNCHANGED <<trackerVars, ActivityRest>>)
    \/ (MinerProcessesSettleFrom(ScenarioResults) /\ UNCHANGED <<trackerVars, ActivityRest>>)
    \/ (ReverseShellsSettle /\ UNCHANGED <<trackerVars, ActivityRest>>)
    \/ (ActivityReturn /\ UNCHANGED ActivityRest)

SpecActivity == SuspiciousInit /\ [][ActivityNext]_vars

\* Overlapping detectChanges calls of the running daemon: start-up's
\* initializeBaseline() has seen bash alone, and xmrig starts once.
OverlapInit ==
    /\ knownProcesses = {"bash"}
    /\ knownUSBDevices = {}
    /\ pc = [c \in Callers |-> "idle"]
    /\ processes = [c \in Callers |-> NoResult]
    /\ usb = [c \in Callers |-> <<>>]
    /\ usbCaught = [c \in Callers |-> FALSE]
    /\ changes = [c \in Callers |-> NoChanges]
    /\ table = {"bash"}
    /\ config = DefaultConfig
    /\ CycleIdle
    /\ EvaluatorIdle
    /\ message = <<>>
    /\ SendIdle
    /\ savedConfig = DefaultChannels
    /\ build = "retrying"
    /\ DeliveryIdle
    /\ SchedulerIdle

OverlapRest == <<cycleVars, sendVars, deliveryVars, schedulerVars>>

OverlapNext ==
    \/ (ProcessAppears /\ UNCHANGED OverlapRest)
    \/ \E c \in Callers :
        \/ (DetectCall(c) /\ UNCHANGED OverlapRest)
        \/ (ReadProcessTable(c) /\ UNCHANGED OverlapRest)
        \/ (ProcessesResolve(c) /\ UNCHANGED OverlapRest)
        \/ (DetectUsb(c) /\ UNCHANGED OverlapRest)
        \/ (Return(c) /\ UNCHANGED OverlapRest)

SpecOverlap == OverlapInit /\ [][OverlapNext]_vars

\* The steps the program takes by itself once their cause is there: the
\* resumptions after a settled promise and the timers of sleep and backoff.
DispatchOwnSteps ==
    \/ BackoffOver
    \/ NotifyReturned
    \/ DispatchSleepOver
    \/ WhatsAppReturned
    \/ EmailReturned
    \/ DispatchReturn

\* The same, where the mail server answers every sendMail but the chat
\* client need never answer (no "ready" event, no end of a sendMessage).
SpecDispatchLive ==
    /\ DispatchInit
    /\ [][DispatchNext]_vars
    /\ WF_vars(DispatchOwnSteps)
    /\ WF_vars(EmailSettles)

\* The same, where every channel operation ends, well or badly, and
\* messages keep coming.
SpecDispatchFair ==
    /\ DispatchInit
    /\ [][DispatchNext]_vars
    /\ WF_vars(DispatchOwnSteps)
    /\ WF_vars(EmailSettles)
    /\ WF_vars(InitSettles)
    /\ WF_vars(MessageSettles)
    /\ WF_vars(DispatchCall)

(***************************************************************************)
(* The claims.                                                             *)
(***************************************************************************)
NoDuplicates(seq) == \A i, j \in 1..Len(seq) : i # j => seq[i] # seq[j]

\* The steps of initializeBaseline and detectChanges, told by the callers'
\* positions before and after.
InitProcessesStep(c) == pc[c] = "init_await_processes" /\ pc'[c] = "init_await_usb"
InitUsbStep(c) == pc[c] = "init_await_usb" /\ pc'[c] = "init_done"
DetectProcessesStep(c) == pc[c] = "detect_await_processes" /\ pc'[c] = "detect_await_usb"
DetectUsbStep(c) == pc[c] = "detect_await_usb" /\ pc'[c] = "detect_done"

\* C1: once initializeBaseline has observed the process list P1 the baseline
\* is P1, and a detectChanges that observes P2 over a baseline B returns the
\* names of P2 \ B, each exactly once and nothing else, and leaves the
\* baseline equal to P2.
C1_DiffAfterInitialize ==
    [][\A c \in Callers :
        /\ (InitProcessesStep(c) /\ processes'[c].tag = "ok")
              => knownProcesses' = ToSet(processes'[c].list)
        /\ (DetectProcessesStep(c) /\ processes'[c].tag = "ok")
              => /\ NoDuplicates(changes'[c].newProcesses)
                 /\ ToSet(changes'[c].newProcesses)
                        = ToSet(processes'[c].list) \ knownProcesses
                 /\ knownProcesses' = ToSet(processes'[c].list)]_vars

\* C1 witness: an initializeBaseline has completed, and an update that saw
\* bash (twice) and xmrig over the baseline {bash} has returned xmrig alone.
C1_Witness ==
    \E c0, c \in Callers :
        /\ c0 # c
        /\ pc[c0] = "init_done"
        /\ pc[c] = "detect_await_usb"
        /\ processes[c] = [tag |-> "ok", list |-> <<"bash", "xmrig">>]
        /\ changes[c].newProcesses = <<"xmrig">>
        /\ knownProcesses = {"bash", "xmrig"}

\* C2: when si.processes() fails, or gives no process list, detectChanges
\* returns no new process and leaves knownProcesses as it was.
C2_ProcessFailureKeepsBaseline ==
    [][\A c \in Callers :
        (DetectProcessesStep(c) /\ processes'[c].tag \in {"throw", "nolist"})
            => /\ changes'[c].newProcesses = <<>>
               /\ knownProcesses' = knownProcesses]_vars

\* C3: when the USB retrieval fails, detectChanges returns no new USB device
\* and leaves knownUSBDevices as it was.
C3_UsbFailureKeepsBaseline ==
    [][\A c \in Callers :
        (DetectUsbStep(c) /\ usbCaught'[c])
            => /\ changes'[c].newUSBDevices = <<>>
               /\ knownUSBDevices' = knownUSBDevices]_vars

\* C4: an update replaces each known set by the set of its own snapshot
\* (never the union with what was known); it reports nothing that is not in
\* its snapshot, so nothing that disappeared; and whatever is in its snapshot
\* and not in the baseline it found, it reports, so an item that left the
\* baseline and came back is new again.
C4_BaselineIsLastSnapshot ==
    [][\A c \in Callers :
        /\ (DetectProcessesStep(c) /\ processes'[c].tag = "ok")
              => /\ knownProcesses' = ToSet(processes'[c].list)
                 /\ ToSet(changes'[c].newProcesses) \subseteq ToSet(processes'[c].list)
                 /\ \A x \in ToSet(processes'[c].list) \ knownProcesses :
                        x \in ToSet(changes'[c].newProcesses)
        /\ DetectUsbStep(c)
              => /\ knownUSBDevices' = UsbIds(usb'[c])
                 /\ UsbIds(changes'[c].newUSBDevices) \subseteq UsbIds(usb'[c])
                 /\ \A id \in UsbIds(usb'[c]) \ knownUSBDevices :
                        id \in UsbIds(changes'[c].newUSBDevices)]_vars

\* C4 witness: xmrig was reported as new by an update whose result is still
\* held by its caller, has left the baseline since, and has just been
\* reported as new again by an update that saw it come back.
C4_Witness ==
    /\ pc["t1"] = "detect_done"
    /\ "xmrig" \in ToSet(changes["t1"].newProcesses)
    /\ pc["t2"] = "detect_await_usb"
    /\ processes["t2"].tag = "ok"
    /\ "xmrig" \in ToSet(changes["t2"].newProcesses)
    /\ knownProcesses = ToSet(processes["t2"].list)

\* C5: initializeBaseline replaces knownProcesses and knownUSBDevices by the
\* sets it observed, whatever they held, and produces no event; run on a
\* baseline that already equals its observation, it leaves it as it is.
C5_InitializeReplaces ==
    [][\A c \in Callers :
        /\ (InitProcessesStep(c) /\ processes'[c].tag = "ok")
              => /\ knownProcesses' = ToSet(processes'[c].list)
                 /\ (knownProcesses = ToSet(processes'[c].list)
                        => knownProcesses' = knownProcesses)
                 /\ changes'[c] = NoChanges
        /\ InitUsbStep(c)
              => /\ knownUSBDevices' = UsbIds(usb'[c])
                 /\ (knownUSBDevices = UsbIds(usb'[c])
                        => knownUSBDevices' = knownUSBDevices)
                 /\ changes'[c] = NoChanges]_vars

\* C5 witness: an initializeBaseline has completed over a baseline that an
\* earlier update had filled with other items (that update reported xmrig and
\* the SanDisk stick, which the baseline no longer holds).
C5_Witness ==
    \E c0, c \in Callers :
        /\ pc[c0] = "init_done"
        /\ usb[c0] # <<>>
        /\ knownUSBDevices = UsbIds(usb[c0])
        /\ knownProcesses = {"bash"}
        /\ pc[c] = "detect_done"
        /\ "xmrig" \in ToSet(changes[c].newProcesses)
        /\ "0781:5581" \in UsbIds(changes[c].newUSBDevices)
        /\ "0781:5581" \notin knownUSBDevices

\* C6: detectChanges returns exactly one device record per USB id that is in
\* the snapshot and not in knownUSBDevices, and each returned record is a
\* full record of the snapshot.
C6_OneEventPerNewUsbId ==
    [][\A c \in Callers :
        DetectUsbStep(c)
            => /\ \A id \in UsbIds(usb'[c]) \ knownUSBDevices :
                    Cardinality({i \in 1..Len(changes'[c].newUSBDevices) :
                                    changes'[c].newUSBDevices[i].id = id}) = 1
               /\ \A i \in 1..Len(changes'[c].newUSBDevices) :
                    /\ changes'[c].newUSBDevices[i] \in ToSet(usb'[c])
                    /\ changes'[c].newUSBDevices[i].id \notin knownUSBDevices]_vars

\* The kinds of message the cycle can hand to sendNotifications.
CountOfType(box, type) == Cardinality({i \in 1..Len(box) : box[i].type = type})

\* C7: a cycle whose update returned at least one change event hands one
\* new-activity message to sendNotifications, and a cycle whose update
\* returned none hands no such message.
C7_ChangeEventsRaiseAlert ==
    (cyclePc = "done")
        => ((report.newProcesses # <<>>)
                <=> (\E i \in 1..Len(outbox) :
                        outbox[i].type \notin {"login", "suspicious", "threshold"}))

\* C8: for each of cpu, ram and disk the cycle holds exactly one finding
\* naming the metric and its usage when the usage is strictly above the
\* threshold, and none otherwise (none at the threshold itself).
MetricFindings(metric) == {i \in 1..Len(alerts) : alerts[i].metric = metric}

FindingIffAbove(metric, usage, threshold) ==
    IF usage > threshold * 100
    THEN /\ Cardinality(MetricFindings(metric)) = 1
         /\ \A i \in MetricFindings(metric) : alerts[i].value = usage
    ELSE MetricFindings(metric) = {}

C8_ThresholdStrict ==
    (cyclePc \in {"await_threshold_send", "done"})
        => /\ FindingIffAbove("CPU usage", report.cpu, config.cpuThreshold)
           /\ FindingIffAbove("RAM usage", report.ram, config.ramThreshold)
           /\ FindingIffAbove("Disk usage", report.disk, config.diskThreshold)
           /\ Len(alerts) = Cardinality({m \in {"CPU usage", "RAM usage", "Disk usage"} :
                                            MetricFindings(m) # {}})

\* C8 witness: a finished cycle with cpu exactly at its threshold, ram one
\* hundredth above and disk one hundredth below: the one finding is ram's.
C8_Witness ==
    /\ cyclePc = "done"
    /\ report.cpu = config.cpuThreshold * 100
    /\ report.ram = config.ramThreshold * 100 + 1
    /\ report.disk = config.diskThreshold * 100 - 1
    /\ alerts = <<[metric |-> "RAM usage", value |-> report.ram]>>

\* What holds of the outbox whatever the toggle: at most one message per
\* category, each carrying all the findings of its category, none for an
\* empty category.
OneMessagePerCategory ==
    /\ CountOfType(outbox, "suspicious") <= 1
    /\ CountOfType(outbox, "threshold") <= 1
    /\ Len(outbox) = CountOfType(outbox, "suspicious") + CountOfType(outbox, "threshold")
    /\ \A i \in 1..Len(outbox) :
        /\ outbox[i].type = "suspicious" => outbox[i].details = report.suspiciousActivity
        /\ outbox[i].type = "threshold" => outbox[i].details = alerts
        /\ outbox[i].details # <<>>

\* C9 (as claimed): a finished cycle has handed over at most one message per
\* category, none for an empty category, and exactly two when it has both
\* suspicious findings and threshold findings.
C9_TwoMessagesForTwoCategories ==
    (cyclePc = "done")
        => /\ OneMessagePerCategory
           /\ (Len(report.suspiciousActivity) >= 1 /\ Len(alerts) >= 1) => Len(outbox) = 2

\* C9 (amended): as claimed, with the two messages only while
\* reportOnSuspiciousActivity is on; while it is off the suspicious findings
\* give no message and the cycle hands over the threshold message alone.
C9_OneMessagePerRoutedCategory ==
    (cyclePc = "done")
        => /\ OneMessagePerCategory
           /\ CountOfType(outbox, "suspicious") =
                IF config.reportOnSuspiciousActivity /\ Len(report.suspiciousActivity) >= 1
                THEN 1 ELSE 0
           /\ CountOfType(outbox, "threshold") = IF Len(alerts) >= 1 THEN 1 ELSE 0
           /\ (Len(report.suspiciousActivity) >= 1 /\ Len(alerts) >= 1)
                => Len(outbox) = IF config.reportOnSuspiciousActivity THEN 2 ELSE 1

\* C9 witness: a finished cycle with three suspicious findings and three
\* threshold findings, the toggle on, and two messages.
C9_Witness ==
    /\ cyclePc = "done"
    /\ config.reportOnSuspiciousActivity
    /\ Len(report.suspiciousActivity) >= 3
    /\ Len(alerts) = 3
    /\ Len(outbox) = 2

\* C10: the parts of a report longer than the limit, joined in order with
\* newlines, are the report.
C10_ChunkingLossless ==
    (sendPc # "idle" /\ StrLen(message) > MAX_MESSAGE_LENGTH)
        => JoinLines(parts) = message

\* A piece is cut at line boundaries when its lines are consecutive lines of
\* the message.
IsRunOfLines(piece, lines) ==
    \E a \in 1..Len(lines) : \E b \in a..Len(lines) :
        SubSeq(lines, a, b) = SplitLines(piece, <<>>)

\* C11: every part of a report longer than the limit is at most
\* MAX_MESSAGE_LENGTH long and is made of whole consecutive lines of the
\* report.
C11_PiecesWithinLimit ==
    (sendPc # "idle" /\ StrLen(message) > MAX_MESSAGE_LENGTH)
        => \A i \in 1..Len(parts) :
            /\ StrLen(parts[i]) <= MAX_MESSAGE_LENGTH
            /\ IsRunOfLines(parts[i], SplitLines(message, <<>>))

\* The marker (i/N) that opens the i-th of N texts.
Marker(i, total) == [kind |-> "header", ch |-> "Report", n |-> 12, index |-> i, of |-> total]

\* The texts handed over so far are the parts in order, the i-th under the
\* marker (i/N), and when the send is over there are N of them.
MarkedInOrder ==
    /\ Len(wire) <= Len(parts)
    /\ \A i \in 1..Len(wire) : wire[i] = <<Marker(i, Len(parts)), NL, NL>> \o parts[i]
    /\ (sendPc = "done") => Len(wire) = Len(parts)

\* Every line of the text is non-empty and within the limit.
LinesPlain(text) ==
    \A i \in 1..Len(SplitLines(text, <<>>)) :
        /\ SplitLines(text, <<>>)[i] # <<>>
        /\ StrLen(SplitLines(text, <<>>)[i]) <= MAX_MESSAGE_LENGTH

C13_SequentialBestEffort ==
    /\ [](StrLen(message) > MAX_MESSAGE_LENGTH
            => /\ Len(outcomes) <= Len(wire)
               /\ Len(wire) <= Len(outcomes) + 1
               /\ (sendPc = "await_part") <=> (Len(wire) = Len(outcomes) + 1)
               /\ \A i \in 1..Len(wire) : wire[i][1].index = i /\ Tail(Tail(Tail(wire[i]))) = parts[i]
               /\ (sendPc = "done")
                    => /\ Len(outcomes) = Len(parts)
                       /\ (sendResult = "true") <=> (\A i \in 1..Len(outcomes) : outcomes[i])
                       /\ sendResult \in {"true", "false"})
    /\ [][(Len(wire') > Len(wire) /\ Len(wire) > 0)
            => (sendPc = "sleep" /\ Len(outcomes) = Len(wire) /\ Len(wire') = Len(wire) + 1)]_vars

\* C13 witness: three parts, the second one failed, the third was still
\* handed over and succeeded, and the result is false.
C13_Witness ==
    /\ sendPc = "done"
    /\ Len(parts) = 3
    /\ outcomes = <<TRUE, FALSE, TRUE>>
    /\ Len(wire) = 3
    /\ sendResult = "false"

\* The last client.sendMessage of the running (or last) sendWhatsAppMessage.
LastAttempt == attempts[Len(attempts)]

\* C14: one sendWhatsAppMessage makes at most 3 attempts; every attempt but
\* the last ended in a transient error, and a backoff lies between two
\* attempts; after an error that is not transient the call has ended with
\* false, after a success it has ended with true, and no attempt follows.
C14_RetryOnlyTransient ==
    /\ Len(attempts) <= 3
    /\ \A k \in 1..(Len(attempts) - 1) : attempts[k] = "transient"
    /\ (notifyPc = "sending") => (Len(attempts) < 3 /\ Len(attempts) = attempt)
    /\ (notifyPc = "backoff") => (LastAttempt = "transient" /\ Len(attempts) < 3)
    /\ (attempts # <<>> /\ LastAttempt \in {"permanent", "nomessage"})
            => (notifyPc \in {"returned", "idle"} /\ notifyResult = "false")
    /\ (attempts # <<>> /\ LastAttempt = "ok")
            => (notifyPc \in {"returned", "idle"} /\ notifyResult = "true")
    /\ (attempts # <<>> /\ LastAttempt = "transient" /\ notifyPc \in {"returned", "idle"})
            => notifyResult = "false"

\* C14 witness: three attempts, each ended in a transient error, and the
\* call has returned false.
C14_Witness ==
    /\ attempts = <<"transient", "transient", "transient">>
    /\ notifyPc = "returned"
    /\ notifyResult = "false"

\* C15: whenever sendNotifications is busy with the WhatsApp channel and the
\* email channel is routed, the message is handed to the email channel
\* later on, even if the chat client never answers.
C15_EmailNotBlockedByChat ==
    (dispatchPc = "whatsapp" /\ savedConfig.emailEnabled /\ savedConfig.emailTo)
        ~> ("email" \in called)

\* C16 (as claimed): when sendNotifications ends it has handed the message
\* to exactly the channels whose enabled flag is true.
C16_EnabledChannelsAttempted ==
    (dispatchPc = "done")
        => /\ ("whatsapp" \in called) <=> savedConfig.whatsappEnabled
           /\ ("email" \in called) <=> savedConfig.emailEnabled

\* C16 (amended): when sendNotifications ends it has handed the message to
\* exactly the channels whose enabled flag is true and whose destination
\* (phone number, recipient) is set; never to one whose flag is false.
C16_RoutedChannelsAttempted ==
    /\ ("whatsapp" \in called) => (savedConfig.whatsappEnabled /\ savedConfig.phoneNumber)
    /\ ("email" \in called) => (savedConfig.emailEnabled /\ savedConfig.emailTo)
    /\ (dispatchPc = "done")
        => /\ (savedConfig.whatsappEnabled /\ savedConfig.phoneNumber) => "whatsapp" \in called
           /\ (savedConfig.emailEnabled /\ savedConfig.emailTo) => "email" \in called

\* C16 witness: a finished sendNotifications with WhatsApp enabled and its
\* number set, email enabled without a recipient: WhatsApp alone attempted.
C16_Witness ==
    /\ dispatchPc = "done"
    /\ savedConfig.whatsappEnabled
    /\ savedConfig.phoneNumber
    /\ savedConfig.emailEnabled
    /\ ~savedConfig.emailTo
    /\ called = {"whatsapp"}
    /\ wire # <<>>

\* C20: no failure of a channel makes sendNotifications throw: a failed part
\* gives the result false, a failed mail gives false; every
\* sendNotifications ends, and the next one starts and ends as well.
C20_FailureNeverThrown ==
    /\ [](/\ ~thrown
          /\ notifyResult # "thrown"
          /\ emailResult # "thrown"
          /\ (sendPc = "done" /\ \E i \in 1..Len(outcomes) : ~outcomes[i])
                => sendResult = "false")
    /\ (dispatchPc # "done") ~> (dispatchPc = "done")
    /\ (dispatchPc = "done") ~> (dispatchPc = "idle")

\* C20 witness: a finished sendNotifications whose WhatsApp send ended in an
\* error without a message and whose mail was rejected: both results false.
C20_Witness ==
    /\ dispatchPc = "done"
    /\ called = {"whatsapp", "email"}
    /\ attempts # <<>>
    /\ LastAttempt = "nomessage"
    /\ sendResult = "false"
    /\ emailResult = "false"
    /\ ~thrown

\* C17: no periodic job has two runs in flight.
C17_NoSelfOverlap == \A job \in Jobs : inFlight[job] <= 1

\* The shutdown signal has been received.
Signalled == phase \in {"stopping", "exited"}

\* C18: once the shutdown signal has been received no run of a periodic
\* job and no login poll starts, and the shutting-down state is never left.
C18_NoCycleAfterShutdown ==
    [][Signalled
        => /\ \A job \in Jobs : inFlight'[job] <= inFlight[job]
           /\ polls' <= polls
           /\ Signalled']_vars

\* A poll of the login watch completes.
PollStep == polls' = polls - 1

\* C19: a completing poll gives the callback the last listed session when
\* its count is greater than the count observed before it (the previous
\* poll's, or the first read's for the first poll), and nothing otherwise;
\* it leaves lastSessionCount at its own count, and that stays so until the
\* next poll completes.
C19_OneAlertPerIncrease ==
    [][/\ PollStep
          => /\ lastSessionCount' = Len(lastPolled'.sessions)
             /\ lastPolled.done
                  => pollAlert' =
                        IF Len(lastPolled'.sessions) > Len(lastPolled.sessions)
                        THEN lastPolled'.sessions[Len(lastPolled'.sessions)] ELSE "none"
             /\ (~lastPolled.done /\ ~initialRead)
                  => pollAlert' =
                        IF Len(lastPolled'.sessions) > lastSessionCount
                        THEN lastPolled'.sessions[Len(lastPolled'.sessions)] ELSE "none"
       /\ (~PollStep /\ lastPolled.done) => lastSessionCount' = lastSessionCount]_vars

\* C21: a cycle whose generateReport has settled holds a well-formed report,
\* whichever sub-collector failed (a failed one leaves its field empty); the
\* cycle is not aborted and the daemon lives on.
C21_SnapshotSurvivesCollectorFailure ==
    (cyclePc \notin {"idle", "await_report"})
        => /\ report.ready
           /\ cyclePc \notin {"rejected", "crashed"}

\* The checks in their fixed order, and whether a check was given evidence.
CheckRank(check) ==
    CASE check = "rootPts" -> 1 [] check = "ssh" -> 2
      [] check = "miners" -> 3 [] check = "reverseShell" -> 4

HasEvidence(check) ==
    CASE check = "rootPts" -> evidence.rootProcs = "found"
      [] check = "ssh" -> evidence.sshConns.tag = "ok" /\ evidence.sshConns.lines > 1
      [] check = "miners" ->
            /\ evidence.processes.tag = "ok"
            /\ \E i \in 1..Len(evidence.processes.list) :
                    IsCryptoMiner(evidence.processes.list[i])
      [] check = "reverseShell" -> evidence.reverseShells = "found"

\* C22: checkSuspiciousActivity never raises, and whatever checks failed it
\* returns exactly one finding for each check that was given evidence, in the
\* fixed order of the checks, and none for a check that failed or saw nothing.
C22_ChecksIsolated ==
    /\ checkPc # "thrown"
    /\ (checkPc = "returned")
        => /\ \A i, j \in 1..Len(suspicious) :
                i < j => CheckRank(suspicious[i].check) < CheckRank(suspicious[j].check)
           /\ \A check \in {"rootPts", "ssh", "miners", "reverseShell"} :
                (\E i \in 1..Len(suspicious) : suspicious[i].check = check)
                    <=> HasEvidence(check)

\* C22 witness: the first and the third check failed, the second saw one
\* connection and the fourth saw a shell: the findings are those two.
C22_Witness ==
    /\ checkPc = "returned"
    /\ evidence.rootProcs = "fail"
    /\ evidence.processes.tag = "throw"
    /\ evidence.sshConns = [tag |-> "ok", lines |-> 2]
    /\ evidence.reverseShells = "found"
    /\ Len(suspicious) = 2
    /\ suspicious[1].check = "ssh"
    /\ suspicious[2].check = "reverseShell"

\* The snapshot of the scenario: xmrig has started beside bash and chrome.
XmrigSnapshot == [tag |-> "ok", list |-> <<"bash", "chrome", "xmrig">>]

\* The miner finding of the returned list names the process.
NamedAsMiner(name) ==
    \E i \in 1..Len(suspicious) :
        /\ suspicious[i].check = "miners"
        /\ name \in ToSet(suspicious[i].names)

\* The name matches the miner-signature set / the safe allowlist.
MinerSignatures == {"miner", "xmr", "monero", "ethminer", "cgminer", "bfgminer", "nicehash"}
MatchesSignature(name) == \E sig \in MinerSignatures : Includes(name, sig)
MatchesAllowList(name) == \E safe \in SafeMiners : Includes(name, safe)

\* The scenario: over the baseline {bash, chrome} an update that sees bash,
\* chrome and xmrig returns xmrig alone, and an evaluation of that snapshot
\* returns exactly one finding that names xmrig, naming nothing else.
ScenarioHolds ==
    /\ [][\A c \in Callers :
            (DetectProcessesStep(c) /\ knownProcesses = {"bash", "chrome"} /\ processes'[c] = XmrigSnapshot)
                => changes'[c].newProcesses = <<"xmrig">>]_vars
    /\ []((checkPc = "returned" /\ evidence.processes = XmrigSnapshot)
            => /\ Cardinality({i \in 1..Len(suspicious) :
                                "xmrig" \in ToSet(suspicious[i].names)}) = 1
               /\ \A i \in 1..Len(suspicious) :
                    suspicious[i].check = "miners" => suspicious[i].names = <<"xmrig">>)

\* C23 (as claimed): the scenario, and in general a process of the snapshot
\* is named in the miner finding exactly when its name matches the
\* miner-signature set and does not match the safe allowlist.
C23_NamedIffSignatureNotAllowed ==
    /\ ScenarioHolds
    /\ []((checkPc = "returned" /\ evidence.processes.tag = "ok")
            => \A name \in AllProcNames :
                NamedAsMiner(name)
                    <=> /\ name \in ToSet(evidence.processes.list)
                        /\ MatchesSignature(name)
                        /\ ~MatchesAllowList(name))

\* C23 (amended): the scenario, and in general a process of the snapshot is
\* named in the miner finding exactly when its name (in lower case) contains
\* no name of the safe list and contains xmr, monero, ethminer, cgminer,
\* bfgminer or nicehash, or contains miner without containing tracker or
\* searchindexer.
C23_NamedIffMinerPredicate ==
    /\ ScenarioHolds
    /\ []((checkPc = "returned" /\ evidence.processes.tag = "ok")
            => \A name \in AllProcNames :
                NamedAsMiner(name)
                    <=> /\ name \in ToSet(evidence.processes.list)
                        /\ ~MatchesAllowList(name)
                        /\ \/ \E sig \in MinerSignatures \ {"miner"} : Includes(name, sig)
                           \/ /\ Includes(name, "miner")
                              /\ ~Includes(name, "tracker")
                              /\ ~Includes(name, "searchindexer"))

\* C23 witness: in one getActivitySummary over the baseline {bash, chrome}
\* the update has returned xmrig alone and the evaluation has returned a
\* miner finding naming xmrig alone.
C23_Witness ==
    /\ pc[CycleCaller] = "detect_done"
    /\ changes[CycleCaller].newProcesses = <<"xmrig">>
    /\ knownProcesses = {"bash", "chrome", "xmrig"}
    /\ checkPc = "returned"
    /\ evidence.processes = XmrigSnapshot
    /\ \E i \in 1..Len(suspicious) :
            suspicious[i].check = "miners" /\ suspicious[i].names = <<"xmrig">>

\* A check run ends / a message of the category is in the outbox.
CheckRunEnds == inFlight'["check"] = inFlight["check"] - 1

\* C24: while reportOnSuspiciousActivity is false no suspicious alert is
\* handed to sendNotifications, and while reportOnLogin is false the login
\* watch is never armed and no login event reaches the callback; while
\* reportOnSuspiciousActivity is true a check run with findings hands over
\* one suspicious alert carrying them, and while reportOnLogin is true a poll
\* that sees more sessions than the stored count gives the callback a login.
C24_TogglesGateRouting ==
    /\ [](~config.reportOnSuspiciousActivity => CountOfType(outbox, "suspicious") = 0)
    /\ [](~config.reportOnLogin => (pollAlert = "none" /\ ~loginWatcher /\ polls = 0))
    /\ [][(CheckRunEnds /\ config.reportOnSuspiciousActivity
                /\ report'.ready /\ report'.suspiciousActivity # <<>>)
            => /\ CountOfType(outbox', "suspicious") = 1
               /\ \A i \in 1..Len(outbox') :
                    outbox'[i].type = "suspicious"
                        => outbox'[i].details = report'.suspiciousActivity]_vars
    /\ [][(PollStep /\ config.reportOnLogin /\ Len(lastPolled'.sessions) > lastSessionCount)
            => pollAlert' = lastPolled'.sessions[Len(lastPolled'.sessions)]]_vars

\* C24 witness: both toggles off, the daemon running, and a check run has
\* ended with a suspicious finding and cpu above its threshold: the
\* threshold alert alone was handed over, and nothing watches the logins.
C24_Witness ==
    /\ phase = "running"
    /\ ~config.reportOnSuspiciousActivity
    /\ ~config.reportOnLogin
    /\ report.ready
    /\ report.suspiciousActivity # <<>>
    /\ Len(outbox) = 1
    /\ outbox[1].type = "threshold"
    /\ ~loginWatcher

\* A run of the job starts.
RunStarts(job) == inFlight'[job] = inFlight[job] + 1

\* C25: nothing runs while the baseline is being initialized (and the chat
\* client started); then one scheduled report runs, alone, to its end; and a
\* timer-driven run of either job starts only after that report has ended
\* (the timers are armed by the step that takes its end).
C25_StartupOrder ==
    /\ [](phase \in {"init", "init_whatsapp"} => \A job \in Jobs : inFlight[job] = 0)
    /\ [](phase = "first_report" => (inFlight["scheduled"] = 1 /\ inFlight["check"] = 0))
    /\ [][\A job \in Jobs :
            RunStarts(job)
                => \/ /\ job = "scheduled"
                      /\ phase \in {"init", "init_whatsapp"}
                      /\ phase' = "first_report"
                   \/ phase \in {"running", "stopping"}]_vars
    /\ [][(phase' = "running" /\ phase # "running")
            => (phase = "first_report" /\ inFlight'["scheduled"] = 0 /\ report'.ready)]_vars

\* C25 witness: the first report has ended, the timers are armed, and the
\* fast timer has started a check while the text of the first report is the
\* last thing handed over.
C25_Witness ==
    /\ phase = "running"
    /\ inFlight["check"] = 1
    /\ inFlight["scheduled"] = 0
    /\ Len(outbox) = 1
    /\ outbox[1].type = "report"

\* C26: every check that finds a usage above its threshold hands over one
\* threshold alert, whatever the checks before it found and sent: after N
\* consecutive checks above a threshold, N threshold alerts were handed over.
C26_ThresholdHasNoMemory ==
    /\ streak.alerts = streak.cycles
    /\ (cyclePc \in {"await_threshold_send", "done"})
        => /\ (alerts # <<>>) <=> (\/ report.cpu > config.cpuThreshold * 100
                                   \/ report.ram > config.ramThreshold * 100
                                   \/ report.disk > config.diskThreshold * 100)
           /\ CountOfType(outbox, "threshold") = IF alerts # <<>> THEN 1 ELSE 0

\* C26 witness: the second of two consecutive checks with cpu above its
\* threshold has ended, and two threshold alerts were handed over.
C26_Witness ==
    /\ cyclePc = "done"
    /\ report.cpu > config.cpuThreshold * 100
    /\ streak = [cycles |-> 2, alerts |-> 2]
    /\ CountOfType(outbox, "threshold") = 1

\* The updates that hold xmrig as a new process in their result.
ReportingXmrig == {c \in Callers : "xmrig" \in ToSet(changes[c].newProcesses)}

\* C27: each update diffs its snapshot against the baseline and replaces the
\* baseline in one step; and the one appearance of xmrig, which keeps
\* running, is returned as new by one update only: never by two updates, and
\* once the baseline holds it, it stays there, so that no later update
\* returns it again.
C27_OneReportPerAppearance ==
    /\ [](Cardinality(ReportingXmrig) <= 1)
    /\ [][\A c \in Callers :
            DetectProcessesStep(c)
                => /\ ToSet(changes'[c].newProcesses) = ToSet(processes'[c].list) \ knownProcesses
                   /\ knownProcesses' = ToSet(processes'[c].list)]_vars
    /\ [][("xmrig" \in knownProcesses /\ "xmrig" \in table)
            => "xmrig" \in knownProcesses']_vars

\* C28: a poll whose `who` failed causes no login alert: when the poll
\* after it works and sees the very sessions that the last working poll
\* before the failure saw, the callback gets nothing.
C28_FailedPollCausesNoAlert ==
    [][(PollStep /\ lastPolled.done /\ lastPolled.failed /\ lastPolled.hadGood
            /\ ~lastPolled'.failed /\ lastPolled'.sessions = lastPolled.good)
        => pollAlert' = "none"]_vars

\* C29: once stopWatchingLogins() has returned (the handler of SIGINT is
\* waiting for the chat client to close), no poll gives the callback an
\* event any more, a poll that was in flight at the stop included, and the
\* watcher stays stopped.
C29_NoCallbackAfterStop ==
    /\ [][(phase = "stopping" /\ PollStep) => pollAlert' = "none"]_vars
    /\ [][phase = "stopping" => loginWatcher' = loginWatcher]_vars

\* C30: every text handed to the chat channel for a split report, the
\* "Report (i/N)" header and the part under it together, is at most
\* MAX_MESSAGE_LENGTH characters long.
C30_SentTextWithinLimit ==
    (sendPc # "idle" /\ StrLen(message) > MAX_MESSAGE_LENGTH)
        => \A i \in 1..Len(wire) : StrLen(wire[i]) <= MAX_MESSAGE_LENGTH

====
